---- MODULE Spec2Model ----
(***************************************************************************)
(* Model of the agentic context reviewer (DeepCodyAgent) of                *)
(* vscode/src/chat/chat-view/handlers/registry.ts.                         *)
(*                                                                         *)
(* One getContext call is one asynchronous control flow.  An action of the *)
(* model is the synchronous code between two suspension points (awaits);   *)
(* the abort signal, the chat stream, the tools and the file resolver are  *)
(* the environment.  Text is a sequence of tokens: "O" stands for the      *)
(* opening context tag, "C" for the closing context tag, "A" for the       *)
(* ready-to-answer sentinel, every other token for one character.          *)
(***************************************************************************)
EXTENDS Integers, Sequences, FiniteSets, TLC

\* ---------------------------------------------------------------- bounds
MaxLoopsBound == 2      \* getContext is called with maxLoops in 0..MaxLoopsBound
MaxEvents == 2          \* 'change' events one stream delivers at most
MaxInitLen == 1         \* length of the initial context passed to getContext
MaxLines == 3           \* lines of a text handed to getDecorationInfo
MaxChars == 3           \* characters of a line whose changes are computed
MaxInstances == 2       \* calls of CodyToolProvider.initialize

\* ------------------------------------------------------- sequence helpers
RECURSIVE Flat(_)
Flat(ss) == IF ss = <<>> THEN <<>> ELSE Head(ss) \o Flat(Tail(ss))

RECURSIVE Reverse(_)
Reverse(s) == IF s = <<>> THEN <<>> ELSE Append(Reverse(Tail(s)), Head(s))

Range(s) == {s[k] : k \in 1..Len(s)}

Every(s, P(_)) == \A k \in 1..Len(s) : P(s[k])

\* the whole text taken for the new part
Slice_Whole(s, n) == s

\* String.prototype.slice(n) on a token sequence
Slice(s, n) == IF n >= Len(s) THEN <<>> ELSE SubSeq(s, n + 1, Len(s))

\* String.prototype.endsWith
EndsWith(path, name) ==
    /\ Len(name) <= Len(path)
    /\ SubSeq(path, Len(path) - Len(name) + 1, Len(path)) = name

\* ---------------------------------------------------------- context items
Item(path, source, title, type, scheme) ==
    [path |-> path, source |-> source, title |-> title, type |-> type,
     scheme |-> scheme, full |-> FALSE]

UserFile == Item(<<"u">>, "user", "", "file", "file")
SearchFile == Item(<<"a">>, "search", "", "file", "file")
MediaItem == Item(<<"m">>, "search", "", "media", "other")
FreshFile == Item(<<"b">>, "search", "", "file", "file")
UserMention == Item(<<"d", "u">>, "user", "", "file", "file")
ToolContextItem == Item(<<"t">>, "agentic", "TOOLCONTEXT", "tool-state", "other")
PriorFile == Item(<<"p", "a">>, "search", "", "file", "other")

isUserAddedItem(c) == c.source = "user"

\* the file getContextFromRelativePath(contextName) resolves to
ResolvedFile(contextName) ==
    [path |-> contextName, source |-> "editor", title |-> "", type |-> "file",
     scheme |-> "file", full |-> TRUE]


\* ------------------------------------------------------------------ text
\* new RegExp(`<${tag}>(.*?)</${tag}>`, 'g') with the tags sliced off
RECURSIVE Extract(_)
Extract(response) ==
    LET opens == {k \in 1..Len(response) : response[k] = "O"} IN
    IF opens = {} THEN <<>>
    ELSE LET p == CHOOSE k \in opens : \A l \in opens : k <= l
             closes == {k \in (p + 1)..Len(response) : response[k] = "C"}
         IN IF closes = {} THEN <<>>
            ELSE LET q == CHOOSE k \in closes : \A l \in closes : k <= l
                 IN <<SubSeq(response, p + 1, q - 1)>>
                        \o Extract(SubSeq(response, q + 1, Len(response)))

isReadyToAnswer(text) == text = <<"A">>

IsPrefix(s, t) == Len(s) <= Len(t) /\ SubSeq(t, 1, Len(s)) = s

Prefixes(t) == {SubSeq(t, 1, n) : n \in 0..Len(t)}

\* the complete responses the model may give; a stream delivers prefixes of one
Responses == {<<"A">>, <<"O", "a", "C">>}

Texts == UNION {Prefixes(t) : t \in Responses}

\* RawTextProcessor: parts, length, consumeAndClear
RawLength(parts) == Len(Flat(parts))

RawJoin(parts) == Flat(parts)

\* ----------------------------------------------------------------- tools
SearchTool == [tag |-> "search", isMcpTool |-> FALSE]
McpTool1 == [tag |-> "mcp1", isMcpTool |-> TRUE]
MemoryTool == [tag |-> "memory", isMcpTool |-> FALSE]
McpTool2 == [tag |-> "mcp2", isMcpTool |-> TRUE]

\* CodyToolProvider.getAllTools(), in registration order: two registries
SmallRegistry == <<SearchTool, McpTool1>>

FullRegistry == <<SearchTool, McpTool1, MemoryTool, McpTool2>>

\* the positions of registry, in order, whose tool has isMcpTool = mcp
RECURSIVE FilterIds(_, _, _)
FilterIds(registry, k, mcp) ==
    IF k > Len(registry) THEN <<>>
    ELSE (IF registry[k].isMcpTool = mcp THEN <<k>> ELSE <<>>)
            \o FilterIds(registry, k + 1, mcp)

\* the items a tool retrieves when its run finds something
ToolItems(tool) ==
    CASE tool.tag = "search" -> {FreshFile, UserMention}
      [] tool.tag = "mcp1" -> {ToolContextItem}
      [] tool.tag = "memory" -> {UserMention}
      [] OTHER -> {MediaItem}

\* what tool.run may settle with: ok = FALSE stands for a throw or a rejection
ToolOutcomes(tool) ==
    {[ok |-> FALSE, items |-> <<>>], [ok |-> TRUE, items |-> <<>>]} \cup
        {[ok |-> TRUE, items |-> <<it>>] : it \in ToolItems(tool)}

\* the initial context items getContext may be called with
InitItems == {UserFile, SearchFile, MediaItem}

RECURSIVE SeqsUpTo(_, _)
SeqsUpTo(S, n) ==
    IF n = 0 THEN {<<>>}
    ELSE LET shorter == SeqsUpTo(S, n - 1)
         IN shorter \cup {Append(s, x) : s \in {q \in shorter : Len(q) = n - 1}, x \in S}

\* chatBuilder.getDehydratedMessages(): the earlier turns of the chat
DehydratedChoices == {<<>>, <<[contextFiles |-> <<PriorFile>>]>>}

\* ----------------------------------------------------------------- state
VARIABLES
    tools,          \* this.tools
    pc,             \* where the getContext control flow is suspended
    maxLoops,       \* argument of getContext
    initial,        \* the context getContext was called with (its elements at the call)
    dehydrated,     \* chatBuilder.getDehydratedMessages()
    aborted,        \* chatAbortSignal.aborted
    i,              \* loop variable of reviewLoop
    context,        \* this.context
    callerCtx,      \* the caller's array that was passed as the initial context
    aliased,        \* this.context is still the caller's array object
    stats,          \* this.stats
    accumulated,    \* processStream: parts of the RawTextProcessor
    lastText,       \* processStream: msg.text of the last 'change' event it handled
    published,      \* texts handed to multiplexer.publish by the running processStream
    events,         \* 'change' events the current stream has delivered
    res,            \* review: the response processStream returned
    toolState,      \* per tool: "idle", "running", "ok", "failed", "skipped"
    toolResult,     \* per tool: what its wrapper resolved with
    mcpResults,     \* review: the mcpResults array
    mcpIdx,         \* review: position of the MCP loop in mcpTools
    newContext,     \* review: newContext
    toolErrors,     \* tags of onComplete(tag, Error) calls of this iteration
    notifyCount,    \* multiplexer.notifyTurnComplete calls of this iteration
    err,            \* what review's catch handler caught in this iteration
    replaced,       \* reflect replaced this.context in this iteration
    chatCalls,      \* chatClient.chat calls
    mainCompletes,  \* onComplete calls for the main process step
    returned,       \* what getContext resolved with
    telemetry,      \* metadata of the 'reviewed' telemetry event
    settled,        \* the per-iteration variables describe a finished iteration
    steady,         \* every finished iteration retrieved exactly one fresh item
    toolsYielded    \* some tool.run has resolved with a non-empty list

\* the diff engine: the arguments of getDecorationInfo and what it computes
VARIABLES
    originalText,   \* argument of getDecorationInfo
    modifiedText,   \* argument of getDecorationInfo
    chunkRegex,     \* argument of getDecorationInfo: "words" or "chars"
    dpc,            \* where the diff engine is: "idle", "start", "lines", "done", "sorted"
    lineDiffs,      \* computeDiffOperations: diffs
    lineInfos,      \* computeDiffOperations: lineInfos
    cursor,         \* how many entries of lineInfos are final
    decorationInfo, \* what getDecorationInfo returned
    sortedDiff,     \* what sortDiff returned
    simpleCall,     \* the last call of isSimpleLineDiff: its argument and its result
    queryResult     \* the side query called with decorationInfo and what it returned

diffVars == <<originalText, modifiedText, chunkRegex, dpc, lineDiffs, lineInfos, cursor,
              decorationInfo, sortedDiff, simpleCall, queryResult>>

\* the tool provider: the static fields of CodyToolProvider and what they refer to
VARIABLES
    instance,            \* CodyToolProvider.instance: 0 for undefined, else the
                         \* number of the CodyToolProvider it refers to
    factories,           \* the ToolFactory of each CodyToolProvider made so far
    openCtxSubscription, \* the static field: <<>> for undefined, else <<n>>, a
                         \* subscription whose callback holds provider n
    configSubscription,  \* the static field: <<>> for undefined, else <<"config">>
    openCtxLive,         \* the OpenCtx subscriptions made and not unsubscribed
    configLive,          \* the config subscriptions made and not unsubscribed
    lastCall             \* the last static method called and what it returned

providerVars == <<instance, factories, openCtxSubscription, configSubscription,
                  openCtxLive, configLive, lastCall>>

inputVars == <<tools, maxLoops, initial, dehydrated>>
streamVars == <<accumulated, lastText, published, events>>
toolVars == <<toolState, toolResult, mcpResults, mcpIdx, toolErrors>>
loopVars == <<pc, i, context, callerCtx, aliased, stats, returned, telemetry,
              mainCompletes, settled, steady>>
vars == <<inputVars, aborted, streamVars, res, toolVars, newContext, notifyCount,
          err, replaced, chatCalls, loopVars, toolsYielded, diffVars, providerVars>>

ToolIds == 1..Len(tools)

\* this.tools.filter(tool => tool.config.metadata?.isMcpTool), as positions
mcpTools == FilterIds(tools, 1, TRUE)

\* this.tools.filter(tool => !tool.config.metadata?.isMcpTool), as positions
nonMcpTools == FilterIds(tools, 1, FALSE)

NoTools == [t \in ToolIds |-> "idle"]
NoResults == [t \in ToolIds |-> <<>>]

\* an empty DecorationInfo
NoDecorationInfo ==
    [modifiedLines |-> <<>>, removedLines |-> <<>>, addedLines |-> <<>>,
     unchangedLines |-> <<>>]

\* isSimpleLineDiff was not called, no side query was called
NoSimpleCall == [called |-> FALSE, changes |-> <<>>, result |-> TRUE]
NoQuery == [fn |-> "none", value |-> <<>>]

\* the diff engine is not called
DiffIdle ==
    /\ originalText = <<>>
    /\ modifiedText = <<>>
    /\ chunkRegex = "words"
    /\ dpc = "idle"
    /\ lineDiffs = <<>>
    /\ lineInfos = <<>>
    /\ cursor = 0
    /\ decorationInfo = NoDecorationInfo
    /\ sortedDiff = <<>>
    /\ simpleCall = NoSimpleCall
    /\ queryResult = NoQuery

\* a ToolFactory that was not made
NoFactory == [tools |-> {}, disabled |-> {}]

\* no static method was called
NoCall == [fn |-> "none", value |-> {}]

\* the class CodyToolProvider when it is loaded: the static fields are undefined
ProviderIdle ==
    /\ instance = 0
    /\ factories = [n \in 1..MaxInstances |-> NoFactory]
    /\ openCtxSubscription = <<>>
    /\ configSubscription = <<>>
    /\ openCtxLive = <<>>
    /\ configLive = 0
    /\ lastCall = NoCall

\* the agent after construction, with the arguments of the getContext call chosen
AgentWith(registries, loops, contexts, earlier) ==
    /\ tools \in registries
    /\ pc = "idle"
    /\ maxLoops \in 0..loops
    /\ initial \in contexts
    /\ dehydrated \in earlier
    /\ aborted \in BOOLEAN
    /\ i = 0
    /\ context = <<>>
    /\ callerCtx = initial
    /\ aliased = FALSE
    /\ stats = [context |-> 0, loop |-> 0]
    /\ accumulated = <<>>
    /\ lastText = <<>>
    /\ published = <<>>
    /\ events = 0
    /\ res = <<>>
    /\ toolState = [t \in 1..Len(tools) |-> "idle"]
    /\ toolResult = [t \in 1..Len(tools) |-> <<>>]
    /\ mcpResults = <<>>
    /\ mcpIdx = 0
    /\ newContext = <<>>
    /\ toolErrors = <<>>
    /\ notifyCount = 0
    /\ err = "none"
    /\ replaced = FALSE
    /\ chatCalls = 0
    /\ mainCompletes = <<>>
    /\ returned = <<>>
    /\ telemetry = [loop |-> 0, fetched |-> 0, context |-> 0]
    /\ settled = FALSE
    /\ steady = TRUE
    /\ toolsYielded = FALSE

\* the agent with its arguments chosen, the diff engine not called
InitWith(registries, loops, contexts, earlier) ==
    /\ DiffIdle
    /\ ProviderIdle
    /\ AgentWith(registries, loops, contexts, earlier)

\* every number of loops up to the bound, the small registry
Init ==
    InitWith({SmallRegistry}, MaxLoopsBound, SeqsUpTo(InitItems, MaxInitLen),
             DehydratedChoices)

\* at most one iteration, the full registry
InitTools ==
    InitWith({FullRegistry}, 1, SeqsUpTo(InitItems, MaxInitLen), DehydratedChoices)

\* every number of loops up to the bound, the small registry, one initial context
InitFair == InitWith({SmallRegistry}, MaxLoopsBound, {<<SearchFile>>}, {<<>>})

\* ------------------------------------------------------------ reviewLoop
\* the loop test with <= for <
LoopCondition_OffByOne(j) == j <= maxLoops /\ ~aborted

\* the loop test without the abort check
LoopCondition_NoAbort(j) == j < maxLoops

\* for (let i = 0; i < maxLoops && !chatAbortSignal.aborted; i++)
LoopCondition(j) == j < maxLoops /\ ~aborted

\* the filter inverted: === for !==
ValidItems_Inverted(nc) == SelectSeq(nc, LAMBDA c : c.title = "TOOLCONTEXT")

\* newContext pushed without the filter
ValidItems_Unfiltered(nc) == nc

\* newContext.filter(c => c.title !== 'TOOLCONTEXT')
ValidItems(nc) == SelectSeq(nc, LAMBDA c : c.title # "TOOLCONTEXT")

\* continue for break on an empty yield
NextStep_ContinueOnEmpty(nc) ==
    IF nc = <<>> THEN "continue"
    ELSE IF Every(nc, isUserAddedItem) THEN "break" ELSE "continue"

\* the loop body without its second break
NextStep_NoUserAddedBreak(nc) == IF nc = <<>> THEN "break" ELSE "continue"

\* the two break statements of the loop body
NextStep(nc) ==
    IF nc = <<>> THEN "break"
    ELSE IF Every(nc, isUserAddedItem) THEN "break" ELSE "continue"

\* _getContext after reviewLoop has returned: telemetry, onComplete, return
Finish(ctx, st, j) ==
    /\ pc' = "done"
    /\ i' = j
    /\ context' = ctx
    /\ stats' = st
    /\ telemetry' = [loop |-> st.loop, fetched |-> st.context, context |-> Len(ctx)]
    /\ mainCompletes' = Append(mainCompletes, [error |-> FALSE])
    /\ returned' = ctx

\* the loop test and, when it passes, the code up to the await of makePrompt
LoopHead(j, ctx, st) ==
    IF LoopCondition(j)
    THEN /\ pc' = "makePrompt"
         /\ i' = j
         /\ context' = ctx
         /\ stats' = [st EXCEPT !.loop = @ + 1]
         /\ UNCHANGED <<returned, telemetry, mainCompletes>>
    ELSE Finish(ctx, st, j)

\* review returns or throws: its locals and those of processStream are gone
ReviewReturns ==
    /\ published' = <<>>
    /\ events' = 0
    /\ toolState' = NoTools
    /\ toolResult' = NoResults
    /\ mcpResults' = <<>>
    /\ mcpIdx' = 0
    /\ toolErrors' = <<>>

\* the loop body after review has resolved with nc; ctx and al are this.context
\* and its aliasing as reflect left them; regular tells whether the iteration
\* retrieved exactly one fresh item with no error and no replacement
AfterReview(nc, ctx, al, regular) ==
    LET valid == ValidItems(nc)
        pushed == IF nc = <<>> THEN <<>> ELSE valid
        ctx2 == ctx \o pushed
        st2 == [stats EXCEPT !.context = @ + Len(pushed)]
    IN /\ settled' = TRUE
       /\ steady' = (steady /\ regular)
       /\ newContext' = nc
       /\ ReviewReturns
       /\ aliased' = al
       /\ callerCtx' = IF al THEN callerCtx \o pushed ELSE callerCtx
       /\ IF NextStep(nc) = "break" THEN Finish(ctx2, st2, i)
          ELSE LoopHead(i + 1, ctx2, st2)

\* the try block opened after processStream instead of before it
InsideTry_AfterStream(step) == step \in {"reflect"}

\* which awaited steps of review lie inside its try block
InsideTry(step) == step \in {"chat", "stream", "reflect"}

\* an exception thrown by a step of review, n being the notifyTurnComplete calls
\* made so far: caught by review's catch handler when the step is inside the try
Throw(step, n, ctx, al) ==
    IF InsideTry(step)
    THEN /\ notifyCount' = n + 1
         /\ err' = step
         /\ AfterReview(<<>>, ctx, al, FALSE)
    ELSE /\ pc' = "rejected"
         /\ err' = step
         /\ notifyCount' = n
         /\ settled' = FALSE
         /\ context' = ctx
         /\ aliased' = al
         /\ newContext' = <<>>
         /\ ReviewReturns
         /\ UNCHANGED <<i, callerCtx, stats, returned, telemetry, mainCompletes, steady>>

\* getContext: this.context = context, then _getContext up to its first await
GetContext ==
    /\ pc = "idle"
    /\ aliased' = TRUE
    /\ callerCtx' = callerCtx
    /\ settled' = FALSE
    /\ steady' = steady
    /\ LoopHead(0, initial, stats)
    /\ UNCHANGED <<inputVars, aborted, streamVars, res, toolVars, newContext,
                   notifyCount, err, replaced, chatCalls>>
    /\ UNCHANGED <<toolsYielded, diffVars, providerVars>>

\* the abort signal of the caller fires
Abort ==
    /\ pc \notin {"idle", "done", "rejected"}
    /\ ~aborted
    /\ aborted' = TRUE
    /\ UNCHANGED <<inputVars, streamVars, res, toolVars, newContext, notifyCount,
                   err, replaced, chatCalls, loopVars>>
    /\ UNCHANGED <<toolsYielded, diffVars, providerVars>>

\* prompter.makePrompt resolves: processStream starts and awaits chatClient.chat
PromptResolves ==
    /\ pc = "makePrompt"
    /\ pc' = "chat"
    /\ chatCalls' = chatCalls + 1
    /\ settled' = FALSE
    /\ accumulated' = <<>>
    /\ lastText' = <<>>
    /\ published' = <<>>
    /\ events' = 0
    /\ res' = <<>>
    /\ toolState' = NoTools
    /\ toolResult' = NoResults
    /\ mcpResults' = <<>>
    /\ mcpIdx' = 0
    /\ toolErrors' = <<>>
    /\ newContext' = <<>>
    /\ notifyCount' = 0
    /\ err' = "none"
    /\ replaced' = FALSE
    /\ UNCHANGED <<inputVars, aborted, i, context, callerCtx, aliased, stats, returned,
                   telemetry, mainCompletes, steady>>
    /\ UNCHANGED <<toolsYielded, diffVars, providerVars>>

\* prompter.makePrompt rejects: it is awaited before the try block
PromptRejects ==
    /\ pc = "makePrompt"
    /\ Throw("prompt", notifyCount, context, aliased)
    /\ UNCHANGED <<inputVars, aborted, accumulated, lastText, res, replaced, chatCalls>>
    /\ UNCHANGED <<toolsYielded, diffVars, providerVars>>

\* chatClient.chat resolves with the stream
ChatResolves ==
    /\ pc = "chat"
    /\ pc' = "stream"
    /\ UNCHANGED <<inputVars, aborted, streamVars, res, toolVars, newContext,
                   notifyCount, err, replaced, chatCalls, i, context, callerCtx,
                   aliased, stats, returned, telemetry, mainCompletes, settled, steady>>
    /\ UNCHANGED <<toolsYielded, diffVars, providerVars>>

\* chatClient.chat rejects: before the try/finally of processStream
ChatRejects ==
    /\ pc = "chat"
    /\ Throw("chat", notifyCount, context, aliased)
    /\ UNCHANGED <<inputVars, aborted, accumulated, lastText, res, replaced, chatCalls>>
    /\ UNCHANGED <<toolsYielded, diffVars, providerVars>>

\* --------------------------------------------------------- processStream
\* the loop of processStream without its abort check
StreamAbortCheck_Missing == FALSE

\* if (parentSignal?.aborted) break
StreamAbortCheck == aborted

\* the early return without the test for the sentinel
ReadyOrEmpty_EmptyOnly(r) == r = <<>>

\* if (!res || isReadyToAnswer(res)) return []
ReadyOrEmpty(r) == r = <<>> \/ isReadyToAnswer(r)

\* if (chatAbortSignal.aborted) return [] / break, before a tool.run
ToolAbortCheck == aborted

\* the wrappers mapped over this.tools instead of nonMcpTools
StartTools_AllTools ==
    /\ pc' = "nonMcp"
    /\ toolState' = [t \in ToolIds |-> IF ToolAbortCheck THEN "skipped" ELSE "running"]
    /\ UNCHANGED <<toolResult, mcpResults, mcpIdx, toolErrors, newContext, err, replaced>>
    /\ published' = <<>>
    /\ events' = 0
    /\ UNCHANGED <<i, context, callerCtx, aliased, stats, returned, telemetry,
                   mainCompletes, settled, steady>>

\* nonMcpTools.map(async tool => ...): every wrapper runs up to its first await
StartTools ==
    /\ pc' = "nonMcp"
    /\ toolState' = [t \in ToolIds |->
                        IF tools[t].isMcpTool THEN "idle"
                        ELSE IF ToolAbortCheck THEN "skipped" ELSE "running"]
    /\ UNCHANGED <<toolResult, mcpResults, mcpIdx, toolErrors, newContext, err, replaced>>
    /\ published' = <<>>
    /\ events' = 0
    /\ UNCHANGED <<i, context, callerCtx, aliased, stats, returned, telemetry,
                   mainCompletes, settled, steady>>

\* the loop of processStream is left without an exception: finally, return,
\* then review up to its next await
ReturnFromStream ==
    LET r == RawJoin(accumulated)
    IN /\ notifyCount' = notifyCount + 1
       /\ accumulated' = <<>>
       /\ lastText' = <<>>
       /\ res' = r
       /\ IF ReadyOrEmpty(r)
          THEN /\ AfterReview(<<>>, context, aliased, FALSE)
               /\ UNCHANGED <<err, replaced>>
          ELSE StartTools

\* the stream yields {type: 'change', text}
StreamChange ==
    /\ pc = "stream"
    /\ events < MaxEvents
    /\ \E text \in Texts :
        /\ IsPrefix(RawJoin(accumulated), text)
        /\ IF StreamAbortCheck
           THEN ReturnFromStream
           ELSE LET newText == Slice(text, RawLength(accumulated))
                IN /\ accumulated' = Append(accumulated, newText)
                   /\ lastText' = text
                   /\ published' = Append(published, newText)
                   /\ events' = events + 1
                   /\ UNCHANGED <<res, toolVars, newContext, notifyCount, err,
                                  replaced, loopVars>>
    /\ UNCHANGED <<inputVars, aborted, chatCalls>>
    /\ UNCHANGED <<toolsYielded, diffVars, providerVars>>

\* the stream yields {type: 'complete'} or ends
StreamComplete ==
    /\ pc = "stream"
    /\ ReturnFromStream
    /\ UNCHANGED <<inputVars, aborted, chatCalls>>
    /\ UNCHANGED <<toolsYielded, diffVars, providerVars>>

\* the stream yields {type: 'error', error} or the iterator rejects
StreamError ==
    /\ pc = "stream"
    /\ \E kind \in {"event", "reject"} :
        IF kind = "event" /\ StreamAbortCheck
        THEN ReturnFromStream
        ELSE /\ Throw("stream", notifyCount + 1, context, aliased)
             /\ accumulated' = <<>>
             /\ lastText' = <<>>
             /\ UNCHANGED <<res, replaced>>
    /\ UNCHANGED <<inputVars, aborted, chatCalls>>
    /\ UNCHANGED <<toolsYielded, diffVars, providerVars>>

\* ------------------------------------------------------------ tool runs
\* what the try/catch around tool.run resolves with
WrapperResult(out) == IF out.ok THEN out.items ELSE <<>>

\* a catch block that swallows the error without reporting it
ReportError_Swallowed(errors, tag) == errors

\* this.statusCallback.onComplete(tool.config.tags.tag.toString(), errorObject)
ReportError(errors, tag) == Append(errors, tag)

\* await Promise.all(nonMcpTools.map(...)): the results in the order of nonMcpTools
nonMcpResults(tr) == [k \in 1..Len(nonMcpTools) |-> tr[nonMcpTools[k]]]

\* the two spreads in the other order
CombineResults_McpFirst(nonMcp, mcp) == Flat(mcp) \o Flat(nonMcp)

\* [...nonMcpResults.flat(), ...mcpResults.flat()].filter(isDefined)
CombineResults(nonMcp, mcp) == Flat(nonMcp) \o Flat(mcp)

\* this.stats.context = this.stats.context + newContext.length
CountFetched(st, nc) == IF Len(nc) > 0 THEN [st EXCEPT !.context = @ + Len(nc)] ELSE st

\* after the MCP loop: newContext, the fetched counter, then reflect is awaited;
\* ts and tr are the tools' states and wrapper results at that point
ToolsDone(results, ts, tr) ==
    LET nc == CombineResults(nonMcpResults(tr), results)
    IN /\ pc' = "reflect"
       /\ newContext' = nc
       /\ mcpResults' = results
       /\ toolState' = ts
       /\ stats' = CountFetched(stats, nc)
       /\ UNCHANGED mcpIdx

\* for (const tool of mcpTools): the k-th round up to its await of tool.run
McpStep(k, results, ts, tr) ==
    IF k > Len(mcpTools) \/ ToolAbortCheck
    THEN ToolsDone(results, ts, tr)
    ELSE /\ pc' = "mcp"
         /\ mcpIdx' = k
         /\ mcpResults' = results
         /\ toolState' = [ts EXCEPT ![mcpTools[k]] = "running"]
         /\ UNCHANGED <<newContext, stats>>

\* the run of a non-MCP tool settles
NonMcpSettles ==
    /\ pc = "nonMcp"
    /\ \E t \in ToolIds :
        /\ toolState[t] = "running"
        /\ \E out \in ToolOutcomes(tools[t]) :
            /\ toolState' = [toolState EXCEPT ![t] = IF out.ok THEN "ok" ELSE "failed"]
            /\ toolResult' = [toolResult EXCEPT ![t] = WrapperResult(out)]
            /\ toolErrors' = IF out.ok THEN toolErrors
                             ELSE ReportError(toolErrors, tools[t].tag)
            /\ toolsYielded' = (toolsYielded \/ out.items # <<>>)
    /\ UNCHANGED <<inputVars, aborted, streamVars, res, mcpResults, mcpIdx, newContext,
                   notifyCount, err, replaced, chatCalls, loopVars>>
    /\ UNCHANGED <<diffVars, providerVars>>

\* Promise.race for Promise.all: the MCP loop starts once one wrapper has resolved
JoinNonMcp_Race ==
    /\ pc = "nonMcp"
    /\ \E t \in ToolIds : toolState[t] # "running" /\ ~tools[t].isMcpTool
    /\ McpStep(1, <<>>, toolState, toolResult)
    /\ UNCHANGED <<inputVars, aborted, streamVars, res, toolResult, toolErrors,
                   notifyCount, err, replaced, chatCalls, i, context, callerCtx,
                   aliased, returned, telemetry, mainCompletes, settled, steady>>
    /\ UNCHANGED <<toolsYielded, diffVars, providerVars>>

\* Promise.all resolves once every wrapper has resolved; the MCP loop starts
JoinNonMcp ==
    /\ pc = "nonMcp"
    /\ \A t \in ToolIds : toolState[t] # "running"
    /\ McpStep(1, <<>>, toolState, toolResult)
    /\ UNCHANGED <<inputVars, aborted, streamVars, res, toolResult, toolErrors,
                   notifyCount, err, replaced, chatCalls, i, context, callerCtx,
                   aliased, returned, telemetry, mainCompletes, settled, steady>>
    /\ UNCHANGED <<toolsYielded, diffVars, providerVars>>

\* the MCP loop pushing each result onto this.context as it arrives
McpSettles_PushesContext ==
    /\ pc = "mcp"
    /\ LET t == mcpTools[mcpIdx]
       IN \E out \in ToolOutcomes(tools[t]) :
            LET tr == [toolResult EXCEPT ![t] = WrapperResult(out)]
                ts == [toolState EXCEPT ![t] = IF out.ok THEN "ok" ELSE "failed"]
            IN /\ toolResult' = tr
               /\ toolErrors' = IF out.ok THEN toolErrors
                                ELSE ReportError(toolErrors, tools[t].tag)
               /\ toolsYielded' = (toolsYielded \/ out.items # <<>>)
               /\ context' = context \o WrapperResult(out)
               /\ McpStep(mcpIdx + 1, Append(mcpResults, WrapperResult(out)), ts, tr)
    /\ UNCHANGED <<inputVars, aborted, streamVars, res, notifyCount, err, replaced,
                   chatCalls, i, callerCtx, aliased, returned, telemetry,
                   mainCompletes, settled, steady>>
    /\ UNCHANGED <<diffVars, providerVars>>

\* the run of the current MCP tool settles; the loop goes on to the next tool
McpSettles ==
    /\ pc = "mcp"
    /\ LET t == mcpTools[mcpIdx]
       IN \E out \in ToolOutcomes(tools[t]) :
            LET tr == [toolResult EXCEPT ![t] = WrapperResult(out)]
                ts == [toolState EXCEPT ![t] = IF out.ok THEN "ok" ELSE "failed"]
            IN /\ toolResult' = tr
               /\ toolErrors' = IF out.ok THEN toolErrors
                                ELSE ReportError(toolErrors, tools[t].tag)
               /\ toolsYielded' = (toolsYielded \/ out.items # <<>>)
               /\ McpStep(mcpIdx + 1, Append(mcpResults, WrapperResult(out)), ts, tr)
    /\ UNCHANGED <<inputVars, aborted, streamVars, res, notifyCount, err, replaced,
                   chatCalls, i, context, callerCtx, aliased, returned, telemetry,
                   mainCompletes, settled, steady>>
    /\ UNCHANGED <<diffVars, providerVars>>

\* --------------------------------------------------------------- reflect
\* what getContextFromRelativePath may do for a name
ResolveOutcomes == {"file", "undefined", "reject"}

\* [...this.context, ...dehydrated messages' contextFiles, each reversed]
CurrentContext(ctx) ==
    ctx \o Flat([k \in 1..Len(dehydrated) |-> Reverse(dehydrated[k].contextFiles)])

\* the inner loop pushing the matched items without the agentic tag
RECURSIVE ReviewName_KeepSource(_, _, _)
ReviewName_KeepSource(contextName, items, outcome) ==
    IF items = <<>> THEN <<>>
    ELSE LET item == Head(items)
             got == IF ~EndsWith(item.path, contextName) THEN <<>>
                    ELSE IF item.scheme # "file" THEN <<item>>
                    ELSE CASE outcome = "file" -> <<ResolvedFile(contextName)>>
                           [] outcome = "undefined" -> <<item>>
                           [] OTHER -> <<>>
         IN got \o ReviewName_KeepSource(contextName, Tail(items), outcome)

\* the inner loop of reflect for one context name
RECURSIVE ReviewName(_, _, _)
ReviewName(contextName, items, outcome) ==
    IF items = <<>> THEN <<>>
    ELSE LET item == Head(items)
             got == IF ~EndsWith(item.path, contextName) THEN <<>>
                    ELSE IF item.scheme # "file"
                         THEN <<[item EXCEPT !.source = "agentic"]>>
                    ELSE CASE outcome = "file" ->
                                <<[ResolvedFile(contextName) EXCEPT !.source = "agentic"]>>
                           [] outcome = "undefined" ->
                                <<[item EXCEPT !.source = "agentic"]>>
                           [] OTHER -> <<>>
         IN got \o ReviewName(contextName, Tail(items), outcome)

\* the outer loop of reflect: the reviewed array before the user-added items
RECURSIVE Reviewed(_, _, _)
Reviewed(contextNames, items, resolve) ==
    IF contextNames = <<>> THEN <<>>
    ELSE ReviewName(Head(contextNames), items, resolve[Head(contextNames)])
            \o Reviewed(Tail(contextNames), items, resolve)

\* the filter keeping the media items only
UserAdded_MediaOnly(ctx) == SelectSeq(ctx, LAMBDA c : c.type = "media")

\* this.context.filter(c => isUserAddedItem(c) || c.type === 'media')
UserAdded(ctx) == SelectSeq(ctx, LAMBDA c : isUserAddedItem(c) \/ c.type = "media")

\* the iteration retrieved exactly one item, fresh and kept
OneFreshItem(nc) ==
    /\ Len(nc) = 1
    /\ ~isUserAddedItem(nc[1])
    /\ nc[1].title # "TOOLCONTEXT"

\* reflect and, after it, the body of reviewLoop up to the next await
Reflect ==
    /\ pc = "reflect"
    /\ LET contextNames == Extract(res)
       IN IF contextNames = <<>> \/ context = <<>>
          THEN /\ replaced' = FALSE
               /\ UNCHANGED <<notifyCount, err>>
               /\ AfterReview(newContext, context, aliased, OneFreshItem(newContext))
          ELSE \E resolve \in [Range(contextNames) -> ResolveOutcomes],
                  throwAt \in {"none", "onStream", "onUpdate"} :
                 LET reviewed == Reviewed(contextNames, CurrentContext(context), resolve)
                     rep == reviewed # <<>>
                     ctx2 == IF rep THEN reviewed \o UserAdded(context) ELSE context
                     al2 == aliased /\ ~rep
                 IN CASE throwAt = "onStream" ->
                            /\ replaced' = FALSE
                            /\ Throw("reflect", notifyCount, context, aliased)
                      [] throwAt = "onUpdate" ->
                            /\ replaced' = rep
                            /\ Throw("reflect", notifyCount, ctx2, al2)
                      [] OTHER ->
                            /\ replaced' = rep
                            /\ UNCHANGED <<notifyCount, err>>
                            /\ AfterReview(newContext, ctx2, al2,
                                           ~rep /\ OneFreshItem(newContext))
    /\ UNCHANGED <<inputVars, aborted, accumulated, lastText, res, chatCalls>>
    /\ UNCHANGED <<toolsYielded, diffVars, providerVars>>

Next ==
    \/ GetContext
    \/ Abort
    \/ PromptResolves
    \/ PromptRejects
    \/ ChatResolves
    \/ ChatRejects
    \/ StreamChange
    \/ StreamComplete
    \/ StreamError
    \/ NonMcpSettles
    \/ JoinNonMcp
    \/ McpSettles
    \/ Reflect

Spec == Init /\ [][Next]_vars

SpecTools == InitTools /\ [][Next]_vars

\* weak fairness: every awaited promise settles and every stream ends
FairSpec == InitFair /\ [][Next]_vars /\ WF_vars(Next)

\* ============================================================ diff engine
\* A text is a sequence of characters, a line a text without a line feed, a
\* chunk a non-empty text. LS stands for U+2028 (LINE SEPARATOR): white space
\* and a line terminator to a regular expression, but no line break to split.
LF == "\n"
LS == "LS"
WordChars == {"a", "b", "c", "x"}
SpaceChars == {" ", LS}
LineTerminators == {LF, LS}

\* the newline convention of a text; the texts here hold no "\r\n"
getNewLineChar(text) == LF

\* String.prototype.split: the pieces of text between the separators
RECURSIVE Split(_, _)
Split(text, sep) ==
    IF \A k \in 1..Len(text) : text[k] # sep THEN <<text>>
    ELSE LET k == CHOOSE n \in 1..Len(text) :
                    text[n] = sep /\ \A m \in 1..(n - 1) : text[m] # sep
         IN <<SubSeq(text, 1, k - 1)>> \o Split(SubSeq(text, k + 1, Len(text)), sep)

\* Array.prototype.join
RECURSIVE Join(_, _)
Join(parts, sep) ==
    IF parts = <<>> THEN <<>>
    ELSE IF Len(parts) = 1 THEN parts[1]
    ELSE parts[1] \o <<sep>> \o Join(Tail(parts), sep)

\* String.prototype.slice(from, to) for 0 <= from and 0 <= to
StrSlice(str, from, to) ==
    IF from >= to \/ from >= Len(str) THEN <<>>
    ELSE SubSeq(str, from + 1, IF to > Len(str) THEN Len(str) ELSE to)

\* the test taking every unchanged area for a separator
HasWhitespace_Always(str) == TRUE

\* /\s/.test(str)
HasWhitespace(str) == \E k \in 1..Len(str) : str[k] \in SpaceChars

\* the class of a character for /(\w+|\s+|\W)/g
CharClass(c) ==
    IF c \in WordChars THEN "w" ELSE IF c \in SpaceChars THEN "s" ELSE "p"

\* the length of the match of /(\w+|\s+|\W)/ at the head of a non-empty line
WordMatchLength(line) ==
    IF CharClass(line[1]) = "p" THEN 1
    ELSE CHOOSE n \in 1..Len(line) :
            /\ \A k \in 1..n : CharClass(line[k]) = CharClass(line[1])
            /\ (n < Len(line) => CharClass(line[n + 1]) # CharClass(line[1]))

\* line.match(WORDS_AND_PUNCTUATION_REGEX) || []
RECURSIVE WordChunks(_)
WordChunks(line) ==
    IF line = <<>> THEN <<>>
    ELSE LET n == WordMatchLength(line)
         IN <<SubSeq(line, 1, n)>> \o WordChunks(SubSeq(line, n + 1, Len(line)))

\* line.match(CHARACTER_REGEX) || []: the dot matches no line terminator
RECURSIVE CharChunks(_)
CharChunks(line) ==
    IF line = <<>> THEN <<>>
    ELSE (IF Head(line) \in LineTerminators THEN <<>> ELSE <<<<Head(line)>>>>)
            \o CharChunks(Tail(line))

\* splitLineIntoChunks(line, chunkRegex)
splitLineIntoChunks(line, regex) ==
    IF regex = "chars" THEN CharChunks(line) ELSE WordChunks(line)

\* the longest sequences of a set of sequences
Longest(S) == {a \in S : \A b \in S : Len(b) <= Len(a)}

\* the longest common subsequences of xs from p and ys from q, each as the
\* sequence of the matched positions (1-based)
RECURSIVE Alignments(_, _, _, _)
Alignments(xs, ys, p, q) ==
    IF p > Len(xs) \/ q > Len(ys) THEN {<<>>}
    ELSE Longest(
            (IF xs[p] = ys[q]
             THEN {<<<<p, q>>>> \o a : a \in Alignments(xs, ys, p + 1, q + 1)}
             ELSE {})
            \cup Alignments(xs, ys, p + 1, q)
            \cup Alignments(xs, ys, p, q + 1))

\* the hunks [sx, ex, sy, ey] (0-based, half-open) between the matches of an
\* alignment, prev being the match before the first one left
RECURSIVE Hunks(_, _, _, _)
Hunks(xs, ys, prev, matches) ==
    LET next == IF matches = <<>> THEN <<Len(xs) + 1, Len(ys) + 1>> ELSE Head(matches)
        gap == IF next[1] > prev[1] + 1 \/ next[2] > prev[2] + 1
               THEN <<<<prev[1], next[1] - 1, prev[2], next[2] - 1>>>>
               ELSE <<>>
    IN IF matches = <<>> THEN gap
       ELSE gap \o Hunks(xs, ys, next, Tail(matches))

\* diff(xs, ys) of fast-myers-diff: the hunks of some shortest edit script
Diffs(xs, ys) == {Hunks(xs, ys, <<0, 0>>, a) : a \in Alignments(xs, ys, 1, 1)}

\* new vscode.Range(startLine, startCharacter, endLine, endCharacter)
VsRange(startLine, startCharacter, endLine, endCharacter) ==
    [start |-> [line |-> startLine, character |-> startCharacter],
     end |-> [line |-> endLine, character |-> endCharacter]]

\* computeLineChanges before its loop: changes, the offsets and the indices
NoChanges ==
    [changes |-> <<>>, originalOffset |-> 0, modifiedOffset |-> 0,
     oldIndex |-> 0, newIndex |-> 0]

\* changes.push({type, text, originalRange, modifiedRange}) of a record that
\* covers advO characters of the original line and advM of the modified line
PushChange(s, type, text, advO, advM, oln, mln) ==
    [s EXCEPT
        !.changes = Append(@,
            [type |-> type,
             text |-> text,
             originalRange |-> VsRange(oln, s.originalOffset, oln, s.originalOffset + advO),
             modifiedRange |-> VsRange(mln, s.modifiedOffset, mln, s.modifiedOffset + advM)]),
        !.originalOffset = @ + advO,
        !.modifiedOffset = @ + advM]

\* the body of pushUnchangedUntil for one chunk, without the merge
PushUnchangedChunk_NoMerge(s, text, oln, mln) ==
    IF text = <<>> THEN s
    ELSE PushChange(s, "unchanged", text, Len(text), Len(text), oln, mln)

\* the body of pushUnchangedUntil for one chunk: an unchanged chunk extends
\* the previous record when that one is unchanged too
PushUnchangedChunk(s, text, oln, mln) ==
    IF text = <<>> THEN s
    ELSE IF s.changes # <<>> /\ s.changes[Len(s.changes)].type = "unchanged"
    THEN LET previousChange == s.changes[Len(s.changes)]
             merged ==
                [previousChange EXCEPT
                    !.text = @ \o text,
                    !.originalRange =
                        VsRange(@.start.line, @.start.character,
                                oln, s.originalOffset + Len(text)),
                    !.modifiedRange =
                        VsRange(@.start.line, @.start.character,
                                mln, s.modifiedOffset + Len(text))]
         IN [s EXCEPT !.changes = [@ EXCEPT ![Len(s.changes)] = merged],
                      !.originalOffset = @ + Len(text),
                      !.modifiedOffset = @ + Len(text)]
    ELSE PushChange(s, "unchanged", text, Len(text), Len(text), oln, mln)

\* pushUnchangedUntil(targetOldIndex, targetNewIndex)
RECURSIVE pushUnchangedUntil(_, _, _, _, _, _)
pushUnchangedUntil(s, oldChunks, targetOldIndex, targetNewIndex, oln, mln) ==
    IF s.oldIndex < targetOldIndex /\ s.newIndex < targetNewIndex
    THEN pushUnchangedUntil(
            [PushUnchangedChunk(s, oldChunks[s.oldIndex + 1], oln, mln)
                EXCEPT !.oldIndex = @ + 1, !.newIndex = @ + 1],
            oldChunks, targetOldIndex, targetNewIndex, oln, mln)
    ELSE s

\* the common whitespace prefix is not looked for
PrefixLength_None(deletionText, insertionText) == 0

\* the length of the common whitespace prefix of the two texts of a hunk
PrefixLength(deletionText, insertionText) ==
    CHOOSE n \in 0..Len(deletionText) :
        /\ n <= Len(insertionText)
        /\ \A k \in 1..n :
              deletionText[k] = insertionText[k] /\ deletionText[k] \in SpaceChars
        /\ ~(/\ n < Len(deletionText)
             /\ n < Len(insertionText)
             /\ deletionText[n + 1] = insertionText[n + 1]
             /\ deletionText[n + 1] \in SpaceChars)

\* the length of the common whitespace suffix left after the prefix
SuffixLength(deletionText, insertionText, prefixLength) ==
    CHOOSE n \in 0..Len(deletionText) :
        /\ n <= Len(deletionText) - prefixLength
        /\ n <= Len(insertionText) - prefixLength
        /\ \A k \in 0..(n - 1) :
              /\ deletionText[Len(deletionText) - k] = insertionText[Len(insertionText) - k]
              /\ deletionText[Len(deletionText) - k] \in SpaceChars
        /\ ~(/\ n < Len(deletionText) - prefixLength
             /\ n < Len(insertionText) - prefixLength
             /\ deletionText[Len(deletionText) - n] = insertionText[Len(insertionText) - n]
             /\ deletionText[Len(deletionText) - n] \in SpaceChars)

\* the body of the loop over chunkDiffs for one hunk
ApplyChunkDiff(s, hunk, oldChunks, newChunks, oln, mln) ==
    LET s1 == pushUnchangedUntil(s, oldChunks, hunk[1], hunk[3], oln, mln)
        deletionText == Flat(SubSeq(oldChunks, hunk[1] + 1, hunk[2]))
        insertionText == Flat(SubSeq(newChunks, hunk[3] + 1, hunk[4]))
        s2 == [s1 EXCEPT !.oldIndex = hunk[2], !.newIndex = hunk[4]]
        prefixLength == PrefixLength(deletionText, insertionText)
        suffixLength == SuffixLength(deletionText, insertionText, prefixLength)
        deletionCore ==
            StrSlice(deletionText, prefixLength, Len(deletionText) - suffixLength)
        insertionCore ==
            StrSlice(insertionText, prefixLength, Len(insertionText) - suffixLength)
        s3 == IF prefixLength > 0
              THEN PushChange(s2, "unchanged", StrSlice(deletionText, 0, prefixLength),
                              prefixLength, prefixLength, oln, mln)
              ELSE s2
        s4 == IF deletionCore # <<>>
              THEN PushChange(s3, "delete", deletionCore, Len(deletionCore), 0, oln, mln)
              ELSE s3
        s5 == IF insertionCore # <<>>
              THEN PushChange(s4, "insert", insertionCore, 0, Len(insertionCore), oln, mln)
              ELSE s4
        s6 == IF suffixLength > 0
              THEN PushChange(s5, "unchanged",
                              StrSlice(deletionText, Len(deletionText) - suffixLength,
                                       Len(deletionText)),
                              suffixLength, suffixLength, oln, mln)
              ELSE s5
    IN IF deletionText = <<>> /\ insertionText = <<>> THEN s2 ELSE s6

\* for (const [oldStart, oldEnd, newStart, newEnd] of chunkDiffs)
RECURSIVE ApplyChunkDiffs(_, _, _, _, _, _)
ApplyChunkDiffs(s, chunkDiffs, oldChunks, newChunks, oln, mln) ==
    IF chunkDiffs = <<>> THEN s
    ELSE ApplyChunkDiffs(ApplyChunkDiff(s, Head(chunkDiffs), oldChunks, newChunks, oln, mln),
                         Tail(chunkDiffs), oldChunks, newChunks, oln, mln)

\* the loop over the chunks after the last hunk: one record for each chunk
RECURSIVE RemainingUnchanged(_, _, _, _, _)
RemainingUnchanged(s, oldChunks, newChunks, oln, mln) ==
    IF s.oldIndex < Len(oldChunks) /\ s.newIndex < Len(newChunks)
    THEN RemainingUnchanged(
            [PushUnchangedChunk_NoMerge(s, oldChunks[s.oldIndex + 1], oln, mln)
                EXCEPT !.oldIndex = @ + 1, !.newIndex = @ + 1],
            oldChunks, newChunks, oln, mln)
    ELSE s

\* computeLineChanges, chunkDiffs being what diff(oldChunks, newChunks) gave
computeLineChanges(oldChunks, newChunks, oln, mln, chunkDiffs) ==
    RemainingUnchanged(
        ApplyChunkDiffs(NoChanges, chunkDiffs, oldChunks, newChunks, oln, mln),
        oldChunks, newChunks, oln, mln).changes

\* groupLineChanges: the loop over changes, grouped being groupedChanges
RECURSIVE GroupFrom(_, _)
GroupFrom(grouped, changes) ==
    IF changes = <<>> THEN grouped
    ELSE LET change == Head(changes)
             currentGroup == grouped[Len(grouped)]
         IN IF grouped # <<>> /\ currentGroup.type = change.type
            THEN GroupFrom(
                    [grouped EXCEPT ![Len(grouped)] =
                        [change EXCEPT
                            !.text = currentGroup.text \o change.text,
                            !.originalRange =
                                VsRange(currentGroup.originalRange.start.line,
                                        currentGroup.originalRange.start.character,
                                        change.originalRange.end.line,
                                        change.originalRange.end.character),
                            !.modifiedRange =
                                VsRange(currentGroup.modifiedRange.start.line,
                                        currentGroup.modifiedRange.start.character,
                                        change.modifiedRange.end.line,
                                        change.modifiedRange.end.character)]],
                    Tail(changes))
            ELSE GroupFrom(Append(grouped, change), Tail(changes))

groupLineChanges(changes) == GroupFrom(<<>>, changes)

\* the loop of isSimpleLineDiff from groupedChanges[k] on
RECURSIVE SimpleFrom(_, _, _)
SimpleFrom(groupedChanges, k, lastChange) ==
    IF k > Len(groupedChanges) THEN TRUE
    ELSE LET incomingChange == groupedChanges[k]
             incomingModification == incomingChange.type # "unchanged"
             isSuitableSeparator == HasWhitespace(incomingChange.text)
             isLastChange == k = Len(groupedChanges)
         IN IF lastChange.type = "null"
            THEN SimpleFrom(groupedChanges, k + 1,
                            [type |-> incomingChange.type, isReplacement |-> FALSE])
            ELSE IF lastChange.isReplacement /\ incomingModification THEN FALSE
            ELSE IF incomingChange.type = "unchanged"
            THEN IF ~isSuitableSeparator /\ ~isLastChange THEN FALSE
                 ELSE SimpleFrom(groupedChanges, k + 1,
                                 [type |-> "unchanged", isReplacement |-> FALSE])
            ELSE SimpleFrom(groupedChanges, k + 1,
                            [type |-> incomingChange.type,
                             isReplacement |-> lastChange.type # "unchanged"])

isSimpleLineDiff(changes) ==
    IF Len(changes) <= 1 THEN TRUE
    ELSE SimpleFrom(groupLineChanges(changes), 1,
                    [type |-> "null", isReplacement |-> FALSE])

\* the character diff kept whatever it looks like
SelectChanges_AlwaysChars(charChanges, chunkChanges) == charChanges

\* createModifiedLineInfo: the character diff when it is simple, the diff at
\* the granularity of chunkRegex otherwise
SelectChanges(charChanges, chunkChanges) ==
    IF ~isSimpleLineDiff(charChanges) THEN chunkChanges ELSE charChanges

\* createModifiedLineInfo(params), charDiffs and chunkDiffs being what diff gave
\* for the character chunks and for the chunks of chunkRegex
createModifiedLineInfo(oln, mln, oldText, newText, regex, charDiffs, chunkDiffs) ==
    [type |-> "modified",
     originalLineNumber |-> oln,
     modifiedLineNumber |-> mln,
     oldText |-> oldText,
     newText |-> newText,
     changes |->
        SelectChanges(
            computeLineChanges(splitLineIntoChunks(oldText, "chars"),
                               splitLineIntoChunks(newText, "chars"),
                               oln, mln, charDiffs),
            computeLineChanges(splitLineIntoChunks(oldText, regex),
                               splitLineIntoChunks(newText, regex),
                               oln, mln, chunkDiffs))]

\* a line of lineInfos of each type
UnchangedLine(oln, mln, text) ==
    [type |-> "unchanged", originalLineNumber |-> oln, modifiedLineNumber |-> mln,
     text |-> text]

RemovedLine(oln, text) ==
    [type |-> "removed", originalLineNumber |-> oln, text |-> text]

AddedLine(mln, text) ==
    [type |-> "added", modifiedLineNumber |-> mln, text |-> text]

\* a modified line whose changes createModifiedLineInfo has yet to compute
PendingLine(oln, mln, oldText, newText) ==
    [type |-> "modified", originalLineNumber |-> oln, modifiedLineNumber |-> mln,
     oldText |-> oldText, newText |-> newText, changes |-> <<>>]

\* computeDiffOperations: the loops pushing the unchanged lines before a hunk
\* and after the last one, s holding lineInfos and the two indices
RECURSIVE UnchangedLines(_, _, _, _)
UnchangedLines(s, modifiedLines, originalLimit, modifiedLimit) ==
    IF s.originalIndex < originalLimit /\ s.modifiedIndex < modifiedLimit
    THEN UnchangedLines(
            [lineInfos |-> Append(s.lineInfos,
                                  UnchangedLine(s.originalIndex, s.modifiedIndex,
                                                modifiedLines[s.modifiedIndex + 1])),
             originalIndex |-> s.originalIndex + 1,
             modifiedIndex |-> s.modifiedIndex + 1],
            modifiedLines, originalLimit, modifiedLimit)
    ELSE s

\* the smaller of two numbers
Min(a, b) == IF a < b THEN a ELSE b

\* no line of a hunk is paired
PairedLines_None(numDeletions, numInsertions) == 0

\* Math.min(numDeletions, numInsertions): the lines of a hunk that are paired
PairedLines(numDeletions, numInsertions) == Min(numDeletions, numInsertions)

\* the lines one hunk pushes: pairs, then removed lines, then added lines
HunkLines(originalLines, modifiedLines, hunk) ==
    LET originalStart == hunk[1]
        modifiedStart == hunk[3]
        numDeletions == hunk[2] - hunk[1]
        numInsertions == hunk[4] - hunk[3]
        first == PairedLines(numDeletions, numInsertions)
        pairs ==
            [k \in 1..first |->
                LET originalLine == originalLines[originalStart + k]
                    modifiedLine == modifiedLines[modifiedStart + k]
                IN IF originalLine # modifiedLine
                   THEN PendingLine(originalStart + k - 1, modifiedStart + k - 1,
                                    originalLine, modifiedLine)
                   ELSE UnchangedLine(originalStart + k - 1, modifiedStart + k - 1,
                                      modifiedLine)]
        removed ==
            [k \in 1..(numDeletions - first) |->
                RemovedLine(originalStart + first + k - 1,
                            originalLines[originalStart + first + k])]
        added ==
            [k \in 1..(numInsertions - first) |->
                AddedLine(modifiedStart + first + k - 1,
                          modifiedLines[modifiedStart + first + k])]
    IN pairs \o removed \o added

\* for (const [originalStart, originalEnd, modifiedStart, modifiedEnd] of diffs)
RECURSIVE ApplyLineDiffs(_, _, _, _)
ApplyLineDiffs(s, diffs, originalLines, modifiedLines) ==
    IF diffs = <<>> THEN s
    ELSE LET hunk == Head(diffs)
             s1 == UnchangedLines(s, modifiedLines, hunk[1], hunk[3])
         IN ApplyLineDiffs(
                [lineInfos |-> s1.lineInfos \o HunkLines(originalLines, modifiedLines, hunk),
                 originalIndex |-> hunk[2],
                 modifiedIndex |-> hunk[4]],
                Tail(diffs), originalLines, modifiedLines)

\* computeDiffOperations without the loop behind the last hunk
computeDiffOperations_NoTrailing(originalLines, modifiedLines, diffs) ==
    ApplyLineDiffs([lineInfos |-> <<>>, originalIndex |-> 0, modifiedIndex |-> 0],
                   diffs, originalLines, modifiedLines).lineInfos

\* computeDiffOperations but for the calls of createModifiedLineInfo, diffs
\* being what diff(originalLines, modifiedLines) gave
computeDiffOperations(originalLines, modifiedLines, diffs) ==
    UnchangedLines(
        ApplyLineDiffs([lineInfos |-> <<>>, originalIndex |-> 0, modifiedIndex |-> 0],
                       diffs, originalLines, modifiedLines),
        modifiedLines, Len(originalLines), Len(modifiedLines)).lineInfos

\* the lines of a type, in the order of lineInfos
LinesOfType(infos, type) == SelectSeq(infos, LAMBDA l : l.type = type)

\* the switch without its case for the removed lines
Decoration_NoRemoved(infos) ==
    [modifiedLines |-> LinesOfType(infos, "modified"),
     removedLines |-> <<>>,
     addedLines |-> LinesOfType(infos, "added"),
     unchangedLines |-> LinesOfType(infos, "unchanged")]

\* the switch of getDecorationInfo over lineInfos
Decoration(infos) ==
    [modifiedLines |-> LinesOfType(infos, "modified"),
     removedLines |-> LinesOfType(infos, "removed"),
     addedLines |-> LinesOfType(infos, "added"),
     unchangedLines |-> LinesOfType(infos, "unchanged")]

\* the order in which sortDiff concatenates the four lists
typeOrder_ConcatOrder == [added |-> 0, modified |-> 1, unchanged |-> 2, removed |-> 3]

\* the order of the types in line-number conflicts
typeOrder == [removed |-> 0, added |-> 1, modified |-> 2, unchanged |-> 3]

\* the line number sortDiff sorts a line by
SortLine(a) == IF a.type = "removed" THEN a.originalLineNumber ELSE a.modifiedLineNumber

\* the comparator that lets the order of the concatenation decide a conflict
Compare_NoTypeOrder(a, b) == SortLine(a) - SortLine(b)

\* the comparator of sortDiff
Compare(a, b) ==
    IF SortLine(a) = SortLine(b)
    THEN typeOrder[a.type] - typeOrder[b.type]
    ELSE SortLine(a) - SortLine(b)

\* a stable sort: x goes behind the entries of sorted that are not after it
InsertSorted(sorted, x) ==
    LET n == Cardinality({k \in 1..Len(sorted) : Compare(sorted[k], x) <= 0})
    IN SubSeq(sorted, 1, n) \o <<x>> \o SubSeq(sorted, n + 1, Len(sorted))

\* Array.prototype.sort with the comparator of sortDiff
RECURSIVE StableSort(_, _)
StableSort(sorted, rest) ==
    IF rest = <<>> THEN sorted
    ELSE StableSort(InsertSorted(sorted, Head(rest)), Tail(rest))

\* sortDiff(diff)
sortDiff(info) ==
    StableSort(<<>>, info.addedLines \o info.modifiedLines \o info.unchangedLines
                        \o info.removedLines)

\* sumTextLengths(items)
RECURSIVE sumTextLengths(_)
sumTextLengths(items) ==
    IF items = <<>> THEN 0 ELSE Len(Head(items).text) + sumTextLengths(Tail(items))

\* modifiedLines.flatMap(line => line.changes)
RECURSIVE FlatChanges(_)
FlatChanges(modifiedLines) ==
    IF modifiedLines = <<>> THEN <<>>
    ELSE Head(modifiedLines).changes \o FlatChanges(Tail(modifiedLines))

\* the changes of one type
ChangesOfType(changes, type) == SelectSeq(changes, LAMBDA c : c.type = type)

\* getDecorationStats(decorationInfo)
getDecorationStats(info) ==
    LET changes == FlatChanges(info.modifiedLines)
    IN [modifiedLines |-> Len(info.modifiedLines),
        removedLines |-> Len(info.removedLines),
        addedLines |-> Len(info.addedLines),
        unchangedLines |-> Len(info.unchangedLines),
        addedChars |-> sumTextLengths(info.addedLines)
                        + sumTextLengths(ChangesOfType(changes, "insert")),
        removedChars |-> sumTextLengths(info.removedLines)
                        + sumTextLengths(ChangesOfType(changes, "delete")),
        unchangedChars |-> sumTextLengths(info.unchangedLines)
                        + sumTextLengths(ChangesOfType(changes, "unchanged"))]

\* isOnlyAddingTextForModifiedLines(modifiedLines)
isOnlyAddingTextForModifiedLines(modifiedLines) ==
    \A k \in 1..Len(modifiedLines) :
        ChangesOfType(modifiedLines[k].changes, "delete") = <<>>

\* isOnlyAddingText(decorationInfo)
isOnlyAddingText(info) ==
    IF Len(info.removedLines) > 0 THEN FALSE
    ELSE IF ~isOnlyAddingTextForModifiedLines(info.modifiedLines) THEN FALSE
    ELSE Len(info.addedLines) > 0 \/ Len(info.modifiedLines) > 0

\* isOnlyRemovingTextForModifiedLines(modifiedLines)
isOnlyRemovingTextForModifiedLines(modifiedLines) ==
    \A k \in 1..Len(modifiedLines) :
        ChangesOfType(modifiedLines[k].changes, "insert") = <<>>

\* the comparator with its operands swapped
CompareAdded_Descending(a, b) == b.modifiedLineNumber - a.modifiedLineNumber

\* the comparator of getAddedLines
CompareAdded(a, b) == a.modifiedLineNumber - b.modifiedLineNumber

\* Array.prototype.sort with the comparator of getAddedLines, a stable sort
RECURSIVE SortAdded(_, _)
SortAdded(sorted, rest) ==
    IF rest = <<>> THEN sorted
    ELSE LET x == Head(rest)
             n == Cardinality({k \in 1..Len(sorted) : CompareAdded(sorted[k], x) <= 0})
         IN SortAdded(SubSeq(sorted, 1, n) \o <<x>> \o SubSeq(sorted, n + 1, Len(sorted)),
                      Tail(rest))

\* getAddedLines(decorationInfo): the array it returns
getAddedLines(info) == SortAdded(<<>>, info.addedLines)

\* the position of the first modified line behind position k, 0 if none
NextModified(infos, k) ==
    IF \E n \in (k + 1)..Len(infos) : infos[n].type = "modified"
    THEN CHOOSE n \in (k + 1)..Len(infos) :
            /\ infos[n].type = "modified"
            /\ \A m \in (k + 1)..(n - 1) : infos[m].type # "modified"
    ELSE 0

\* the agent's variables, which the diff engine never touches
agentVars ==
    <<inputVars, aborted, streamVars, res, toolVars, newContext, notifyCount, err,
      replaced, chatCalls, loopVars, toolsYielded>>

\* getDecorationInfo up to the first call of createModifiedLineInfo: the texts
\* are split into lines and computeDiffOperations walks the hunks of diff
ComputeDiffOperations ==
    /\ dpc = "start"
    /\ LET originalLines == Split(originalText, getNewLineChar(originalText))
           modifiedLines == Split(modifiedText, getNewLineChar(modifiedText))
       IN \E diffs \in Diffs(originalLines, modifiedLines) :
            /\ lineDiffs' = diffs
            /\ lineInfos' = computeDiffOperations(originalLines, modifiedLines, diffs)
    /\ cursor' = 0
    /\ dpc' = "lines"
    /\ UNCHANGED <<originalText, modifiedText, chunkRegex, decorationInfo, sortedDiff,
                   simpleCall, queryResult>>
    /\ UNCHANGED <<agentVars, providerVars>>

\* createModifiedLineInfo for the next pair of lines that differ
CreateModifiedLineInfo ==
    /\ dpc = "lines"
    /\ NextModified(lineInfos, cursor) # 0
    /\ LET k == NextModified(lineInfos, cursor)
           line == lineInfos[k]
       IN /\ \E charDiffs \in Diffs(splitLineIntoChunks(line.oldText, "chars"),
                                     splitLineIntoChunks(line.newText, "chars")),
                chunkDiffs \in Diffs(splitLineIntoChunks(line.oldText, chunkRegex),
                                      splitLineIntoChunks(line.newText, chunkRegex)) :
                /\ lineInfos' = [lineInfos EXCEPT ![k] =
                    createModifiedLineInfo(line.originalLineNumber, line.modifiedLineNumber,
                                           line.oldText, line.newText, chunkRegex,
                                           charDiffs, chunkDiffs)]
                /\ LET charChanges ==
                            computeLineChanges(splitLineIntoChunks(line.oldText, "chars"),
                                               splitLineIntoChunks(line.newText, "chars"),
                                               line.originalLineNumber,
                                               line.modifiedLineNumber, charDiffs)
                   IN simpleCall' = [called |-> TRUE, changes |-> charChanges,
                                     result |-> isSimpleLineDiff(charChanges)]
          /\ cursor' = k
    /\ UNCHANGED <<originalText, modifiedText, chunkRegex, lineDiffs,
                   dpc, decorationInfo, sortedDiff,
                   queryResult>>
    /\ UNCHANGED <<agentVars, providerVars>>

\* getDecorationInfo after computeDiffOperations has returned
GetDecorationInfo ==
    /\ dpc = "lines"
    /\ NextModified(lineInfos, cursor) = 0
    /\ decorationInfo' = Decoration(lineInfos)
    /\ dpc' = "done"
    /\ UNCHANGED <<originalText, modifiedText, chunkRegex, lineDiffs,
                   lineInfos, cursor, sortedDiff,
                   simpleCall, queryResult>>
    /\ UNCHANGED <<agentVars, providerVars>>

\* sortDiff is called with the DecorationInfo
SortDiff ==
    /\ dpc = "done"
    /\ sortedDiff' = sortDiff(decorationInfo)
    /\ dpc' = "sorted"
    /\ UNCHANGED <<originalText, modifiedText, chunkRegex, lineDiffs,
                   lineInfos, cursor,
                   decorationInfo, simpleCall, queryResult>>
    /\ UNCHANGED <<agentVars, providerVars>>

\* a side query is called with the DecorationInfo: it returns value and leaves
\* info as the DecorationInfo
Query(fn, value, info) ==
    /\ dpc = "done"
    /\ dpc' = "queried"
    /\ queryResult' = [fn |-> fn, value |-> value]
    /\ decorationInfo' = info
    /\ UNCHANGED <<originalText, modifiedText, chunkRegex, lineDiffs,
                   lineInfos, cursor, sortedDiff,
                   simpleCall>>
    /\ UNCHANGED <<agentVars, providerVars>>

GetDecorationStats ==
    Query("getDecorationStats", getDecorationStats(decorationInfo), decorationInfo)

IsOnlyAddingText ==
    Query("isOnlyAddingText", isOnlyAddingText(decorationInfo), decorationInfo)

IsOnlyAddingTextForModifiedLines ==
    Query("isOnlyAddingTextForModifiedLines",
          isOnlyAddingTextForModifiedLines(decorationInfo.modifiedLines), decorationInfo)

IsOnlyRemovingTextForModifiedLines ==
    Query("isOnlyRemovingTextForModifiedLines",
          isOnlyRemovingTextForModifiedLines(decorationInfo.modifiedLines), decorationInfo)

\* getAddedLines sorts the addedLines array of its argument in place and
\* returns that array
GetAddedLines ==
    Query("getAddedLines", getAddedLines(decorationInfo),
          [decorationInfo EXCEPT !.addedLines = getAddedLines(decorationInfo)])

NextDiff ==
    \/ ComputeDiffOperations
    \/ CreateModifiedLineInfo
    \/ GetDecorationInfo
    \/ SortDiff
    \/ GetDecorationStats
    \/ IsOnlyAddingText
    \/ IsOnlyAddingTextForModifiedLines
    \/ IsOnlyRemovingTextForModifiedLines
    \/ GetAddedLines

\* the lines the texts of several lines are made of
LineSet == {<<>>, <<"a">>, <<"b">>}

\* the texts of up to MaxLines lines
DiffTexts == {Join(ls, LF) : ls \in SeqsUpTo(LineSet, MaxLines)}

\* the characters the texts of one line are made of
LineChars == {"a", " ", LS}

\* the texts of one line of up to MaxChars characters
LineTexts == SeqsUpTo(LineChars, MaxChars)

\* pairs of longer lines: alternating edits inside a word, and a space
\* inserted between two words
ExamplePairs ==
    {<<<<"a", "b", "c", "a", "b", "c">>, <<"x", "b", "c", "x", "b", "c">>>>,
     <<<<"a", "a", " ", "b">>, <<"a", "a", " ", " ", "b">>>>}

\* the agent is not used
AgentIdle == AgentWith({SmallRegistry}, 0, {<<>>}, {<<>>}) /\ aborted = FALSE

\* getDecorationInfo is called with the two texts and the chunk pattern
DiffCalled(pairs, regexes) ==
    /\ \E pair \in pairs :
        /\ originalText = pair[1]
        /\ modifiedText = pair[2]
    /\ chunkRegex \in regexes
    /\ dpc = "start"
    /\ lineDiffs = <<>>
    /\ lineInfos = <<>>
    /\ cursor = 0
    /\ decorationInfo = NoDecorationInfo
    /\ sortedDiff = <<>>
    /\ simpleCall = NoSimpleCall
    /\ queryResult = NoQuery

\* texts of several short lines, the default chunk pattern
InitDiff == AgentIdle /\ ProviderIdle /\ DiffCalled(DiffTexts \X DiffTexts, {"words"})

\* texts of one short line with the default chunk pattern, the longer lines
\* with both chunk patterns
InitLine ==
    /\ AgentIdle
    /\ ProviderIdle
    /\ \/ DiffCalled(LineTexts \X LineTexts, {"words"})
       \/ DiffCalled(ExamplePairs, {"words", "chars"})

SpecDiff == InitDiff /\ [][NextDiff]_vars

SpecLine == InitLine /\ [][NextDiff]_vars

\* --------------------------------------------------------- CodyToolProvider
\* the tools a new ToolFactory registers
DefaultTools == {"Search", "File", "CLI", "Memory"}

\* the OpenCtx providers with mentions that a metaChanges event can list
OpenCtxProviders == {"web"}

\* the tools of an MCP server
McpTools == {"mcp_tool"}

\* the tool names updateToolDisabledState is called with
ToolNames == {"Search", "unknown"}

\* new ToolFactory(contextRetriever)
NewFactory == [tools |-> DefaultTools, disabled |-> {}]

\* factory.getInstances()
getInstances(factory) == factory.tools

\* factory.createOpenCtxTools(providerMeta): one tool for each provider
createOpenCtxTools(factory, providerMeta) ==
    [factory EXCEPT !.tools = @ \cup providerMeta]

\* factory.createMcpTools(tools, serverName): the factory afterwards
createMcpTools(factory, mcp) == [factory EXCEPT !.tools = @ \cup mcp]

\* factory.updateToolDisabledState(toolName, disabled): found, and the factory
\* afterwards
updateToolDisabledState(factory, toolName, disabled) ==
    IF toolName \in factory.tools
    THEN [found |-> TRUE,
          factory |-> [factory EXCEPT !.disabled =
                            IF disabled THEN @ \cup {toolName} ELSE @ \ {toolName}]]
    ELSE [found |-> FALSE, factory |-> factory]

\* a subscription is made whenever there is a provider
NeedsSubscription_Always(provider, subscription) == provider # 0

\* provider && !CodyToolProvider.configSubscription, and the same test of
\* openCtxSubscription
NeedsSubscription(provider, subscription) == provider # 0 /\ subscription = <<>>

\* s without its first x
RECURSIVE Without(_, _)
Without(s, x) ==
    IF s = <<>> THEN <<>>
    ELSE IF Head(s) = x THEN Tail(s)
    ELSE <<Head(s)>> \o Without(Tail(s), x)

\* CodyToolProvider.initialize(contextRetriever): a new CodyToolProvider with a
\* new ToolFactory, then setupOpenCtxProviderListener
Initialize ==
    /\ instance < MaxInstances
    /\ LET provider == instance + 1
       IN /\ instance' = provider
          /\ factories' = [factories EXCEPT ![provider] = NewFactory]
          /\ IF NeedsSubscription(provider, configSubscription)
             THEN /\ configSubscription' = <<"config">>
                  /\ configLive' = configLive + 1
             ELSE UNCHANGED <<configSubscription, configLive>>
          /\ IF NeedsSubscription(provider, openCtxSubscription)
             THEN /\ openCtxSubscription' = <<provider>>
                  /\ openCtxLive' = Append(openCtxLive, provider)
             ELSE UNCHANGED <<openCtxSubscription, openCtxLive>>
    /\ lastCall' = [fn |-> "initialize", value |-> {}]
    /\ UNCHANGED <<agentVars, diffVars>>

\* CodyToolProvider.dispose()
Dispose ==
    /\ IF openCtxSubscription # <<>>
       THEN /\ openCtxLive' = Without(openCtxLive, openCtxSubscription[1])
            /\ openCtxSubscription' = <<>>
       ELSE UNCHANGED <<openCtxSubscription, openCtxLive>>
    /\ configLive' = IF configSubscription # <<>> THEN configLive - 1 ELSE configLive
    /\ configSubscription' = <<>>
    /\ lastCall' = [fn |-> "dispose", value |-> {}]
    /\ UNCHANGED <<instance, factories, agentVars, diffVars>>

\* openctxController emits the providers: every subscription that was not
\* unsubscribed calls provider.factory.createOpenCtxTools(providerMeta)
ProviderUpdate ==
    /\ \E k \in 1..Len(openCtxLive), providerMeta \in SUBSET OpenCtxProviders :
        factories' = [factories EXCEPT ![openCtxLive[k]] =
                        createOpenCtxTools(@, providerMeta)]
    /\ UNCHANGED <<instance, openCtxSubscription, configSubscription, openCtxLive,
                   configLive, lastCall, agentVars, diffVars>>

\* what CodyToolProvider.getTools() returns
getTools == IF instance # 0 THEN getInstances(factories[instance]) ELSE {}

\* CodyToolProvider.getTools()
GetTools ==
    /\ lastCall' = [fn |-> "getTools", value |-> getTools]
    /\ UNCHANGED <<instance, factories, openCtxSubscription, configSubscription,
                   openCtxLive, configLive, agentVars, diffVars>>

\* CodyToolProvider.getAllTools()
GetAllTools ==
    /\ lastCall' = [fn |-> "getAllTools", value |-> getTools]
    /\ UNCHANGED <<instance, factories, openCtxSubscription, configSubscription,
                   openCtxLive, configLive, agentVars, diffVars>>

\* CodyToolProvider.registerMcpTools(serverName, tools)
RegisterMcpTools ==
    /\ \E mcp \in SUBSET McpTools :
        IF instance = 0
        THEN /\ lastCall' = [fn |-> "registerMcpTools", value |-> {}]
             /\ UNCHANGED factories
        ELSE /\ factories' = [factories EXCEPT ![instance] = createMcpTools(@, mcp)]
             /\ lastCall' = [fn |-> "registerMcpTools", value |-> mcp]
    /\ UNCHANGED <<instance, openCtxSubscription, configSubscription, openCtxLive,
                   configLive, agentVars, diffVars>>

\* CodyToolProvider.updateToolDisabledState(toolName, disabled)
UpdateToolDisabledState ==
    /\ \E toolName \in ToolNames, disabled \in BOOLEAN :
        IF instance = 0
        THEN /\ lastCall' = [fn |-> "updateToolDisabledState", value |-> FALSE]
             /\ UNCHANGED factories
        ELSE LET result == updateToolDisabledState(factories[instance], toolName, disabled)
             IN /\ factories' = [factories EXCEPT ![instance] = result.factory]
                /\ lastCall' = [fn |-> "updateToolDisabledState", value |-> result.found]
    /\ UNCHANGED <<instance, openCtxSubscription, configSubscription, openCtxLive,
                   configLive, agentVars, diffVars>>

NextProvider ==
    \/ Initialize
    \/ Dispose
    \/ ProviderUpdate
    \/ GetTools
    \/ GetAllTools
    \/ RegisterMcpTools
    \/ UpdateToolDisabledState

\* the class after it is loaded, the agent and the diff engine not used
InitProvider == AgentIdle /\ DiffIdle /\ ProviderIdle

SpecProvider == InitProvider /\ [][NextProvider]_vars

\* ================================================================ claims
Terminated == pc \in {"done", "rejected"}

Occurrences(s, x) == Cardinality({k \in 1..Len(s) : s[k] = x})

\* C1: every user-added item of the initial context is in the working context
\* from the call on, as often as it was passed, and in the context getContext
\* returns, whatever reflection replaced.
UserAddedNeverLost ==
    \A k \in 1..Len(initial) :
        isUserAddedItem(initial[k]) =>
            /\ pc # "idle" => Occurrences(context, initial[k]) >= Occurrences(initial, initial[k])
            /\ pc = "done" => Occurrences(returned, initial[k]) >= Occurrences(initial, initial[k])

\* getContext has returned, its last reflection replaced the working context,
\* and no extracted name matches a user-added item of the initial context
UserAddedSurvivesReplacement ==
    /\ pc = "done"
    /\ replaced
    /\ \E k \in 1..Len(initial) :
        /\ isUserAddedItem(initial[k])
        /\ \A n \in Range(Extract(res)) : ~EndsWith(initial[k].path, n)

\* the loop counter and the loop variable never exceed maxLoops, and with
\* maxLoops = 0 the call runs no review and returns the initial context
LoopBounded ==
    /\ stats.loop <= maxLoops
    /\ i <= maxLoops
    /\ chatCalls <= maxLoops
    /\ (maxLoops = 0 /\ pc # "idle") =>
            /\ pc = "done"
            /\ stats.loop = 0
            /\ chatCalls = 0
            /\ returned = initial

\* C2: getContext runs at most maxLoops review iterations and, every awaited
\* promise settling, terminates; with maxLoops = 0 it runs none and returns the
\* initial context.
LoopTerminates == [](LoopBounded) /\ <>Terminated

\* the loop ran up to the cap and returned
LoopRanToCap == pc = "done" /\ ~aborted /\ maxLoops >= 2 /\ stats.loop = maxLoops

\* C3: when no tool run ever yields an item, at most one review iteration is
\* started, and a call with maxLoops >= 1 that is never aborted ends after
\* exactly one.
EmptyYieldOneIteration ==
    ~toolsYielded =>
        /\ stats.loop <= 1
        /\ (Terminated /\ ~aborted /\ maxLoops >= 1) => stats.loop = 1

\* tools ran in the only iteration of a call with maxLoops >= 2 and yielded nothing
EmptyYieldStopsEarly ==
    /\ pc = "done"
    /\ maxLoops >= 2
    /\ ~aborted
    /\ ~toolsYielded
    /\ err = "none"
    /\ ~ReadyOrEmpty(res)
    /\ stats.loop = 1

\* C4: when every iteration retrieves exactly one fresh item (not user-added,
\* not titled TOOLCONTEXT) with no error, no replacement and no abort, getContext
\* runs exactly maxLoops iterations and returns initial length + maxLoops items.
LoopCapReached ==
    (pc = "done" /\ steady /\ ~aborted) =>
        /\ stats.loop = maxLoops
        /\ Len(returned) = Len(initial) + maxLoops

\* a call with maxLoops >= 2 whose iterations all retrieved one fresh item
SteadyRunToCap == pc = "done" /\ steady /\ ~aborted /\ maxLoops >= 2

RECURSIVE SumLen(_, _)
SumLen(f, S) ==
    IF S = {} THEN 0
    ELSE LET t == CHOOSE x \in S : TRUE IN Len(f[t]) + SumLen(f, S \ {t})

\* C5: when the tools of an iteration have run without an abort, every tool has
\* run; a failed tool contributes no item and has exactly one error status for
\* its tag; every other tool's items are in the new context, which holds nothing
\* else; and review's catch handler has not been entered.
ToolFailuresIsolated ==
    (pc = "reflect" /\ ~aborted) =>
        /\ \A t \in ToolIds : toolState[t] \in {"ok", "failed"}
        /\ \A t \in ToolIds :
            /\ toolState[t] = "failed" =>
                    /\ toolResult[t] = <<>>
                    /\ Occurrences(toolErrors, tools[t].tag) = 1
            /\ toolState[t] = "ok" =>
                    /\ Occurrences(toolErrors, tools[t].tag) = 0
                    /\ \A x \in Range(toolResult[t]) : x \in Range(newContext)
        /\ Len(newContext) = SumLen(toolResult, ToolIds)
        /\ err = "none"

\* one non-MCP tool failed while another non-MCP tool and an MCP tool yielded items
OneToolFailedOthersYielded ==
    /\ pc = "reflect"
    /\ ~aborted
    /\ \E t1, t2, t3 \in ToolIds :
        /\ ~tools[t1].isMcpTool /\ toolState[t1] = "failed"
        /\ ~tools[t2].isMcpTool /\ toolState[t2] = "ok" /\ toolResult[t2] # <<>>
        /\ tools[t3].isMcpTool /\ toolState[t3] = "ok" /\ toolResult[t3] # <<>>

\* C6: when an iteration has finished, notifyTurnComplete has been called
\* exactly once in it.
TurnCompleteExactlyOnce == settled => notifyCount = 1

\* C7: an error thrown by chat, the stream or reflect never rejects getContext:
\* the iteration yields no new context and is the last one, and getContext
\* resolves with the working context.
ErrorsCaughtInIteration ==
    /\ pc = "rejected" => err \notin {"chat", "stream", "reflect"}
    /\ (settled /\ err \in {"chat", "stream", "reflect"}) =>
            /\ newContext = <<>>
            /\ pc = "done"
            /\ returned = context

\* the stream of the second iteration failed and getContext returned what the
\* first iteration had accumulated
StreamErrorKeepsContext ==
    /\ pc = "done"
    /\ err = "stream"
    /\ stats.loop = 2
    /\ Len(returned) > Len(initial)

\* C8: when getContext has settled, the main step has been completed exactly
\* once, with an error exactly if getContext rejected.
MainStepCompletedOnce ==
    Terminated =>
        /\ Len(mainCompletes) = 1
        /\ mainCompletes[1].error = (pc = "rejected")

\* C9: once the signal is aborted no review iteration and no tool run is
\* started, and a call whose signal is already aborted returns the initial
\* context with no iteration, no chat call and no tool run.
AbortHonoured ==
    [][/\ aborted =>
            /\ stats'.loop = stats.loop
            /\ \A t \in ToolIds : toolState'[t] = "running" => toolState[t] = "running"
       /\ (pc = "idle" /\ aborted) =>
            /\ pc' = "done"
            /\ returned' = initial
            /\ stats'.loop = 0
            /\ chatCalls' = 0
            /\ \A t \in ToolIds : toolState'[t] = "idle"]_vars

\* the abort ended a loop that would have gone on to another iteration
AbortEndsLoopEarly ==
    /\ pc = "done"
    /\ aborted
    /\ stats.loop >= 1
    /\ stats.loop < maxLoops
    /\ NextStep(newContext) = "continue"

\* C10: once the signal is aborted processStream appends nothing to the
\* accumulated response and publishes nothing to the multiplexer.
AbortStopsStream ==
    [][aborted =>
            /\ Len(accumulated') <= Len(accumulated)
            /\ Len(published') <= Len(published)]_vars

\* the signal fired while a stream that has delivered text can deliver more
AbortedMidStream ==
    /\ pc = "stream"
    /\ aborted
    /\ accumulated # <<>>
    /\ events < MaxEvents

\* a step that ends a review iteration: review has returned or thrown into
\* its catch handler, and the loop body has run up to the next await or return
IterationEnds ==
    /\ pc \in {"chat", "stream", "nonMcp", "mcp", "reflect"}
    /\ pc' \in {"done", "makePrompt"}

\* s ends with t
IsSuffix(t, s) ==
    /\ Len(t) <= Len(s)
    /\ SubSeq(s, Len(s) - Len(t) + 1, Len(s)) = t

\* C11: when processStream returns an empty response or exactly the ready
\* sentinel, the iteration starts no tool, runs no reflection, yields no new
\* context, leaves the working context as it was and is the last one.
ReadyEndsLoop ==
    [][(/\ pc = "stream"
        /\ pc' # "stream"
        /\ err' = "none"
        /\ (res' = <<>> \/ res' = <<"A">>))
       => /\ pc' = "done"
          /\ newContext' = <<>>
          /\ context' = context
          /\ returned' = context
          /\ stats' = stats
          /\ ~replaced'
          /\ \A t \in ToolIds : toolState'[t] = "idle"]_vars

\* the sentinel ended a loop in its first iteration with iterations to spare
ReadyStoppedEarly ==
    /\ pc = "done"
    /\ settled
    /\ err = "none"
    /\ ~aborted
    /\ res = <<"A">>
    /\ stats.loop = 1
    /\ maxLoops = 2

\* C12: an iteration whose retrieved items are all user-added appends them and
\* ends the loop whatever the counter is; an iteration that retrieved an item
\* that is not user-added is followed by another one when the counter is below
\* maxLoops and the signal is not aborted.
UserAddedYieldStops ==
    [][IterationEnds =>
        /\ (newContext' # <<>> /\ \A k \in 1..Len(newContext') : newContext'[k].source = "user")
             => /\ pc' = "done"
                /\ stats'.loop = stats.loop
                /\ IsSuffix(newContext', context')
                /\ returned' = context'
        /\ ((\E k \in 1..Len(newContext') : newContext'[k].source # "user")
              /\ i + 1 < maxLoops /\ ~aborted)
             => /\ pc' = "makePrompt"
                /\ stats'.loop = stats.loop + 1]_vars

\* user-added items ended a loop that had an iteration to spare
UserAddedYieldStoppedEarly ==
    /\ pc = "done"
    /\ settled
    /\ ~aborted
    /\ newContext # <<>>
    /\ \A k \in 1..Len(newContext) : newContext[k].source = "user"
    /\ stats.loop < maxLoops
    /\ IsSuffix(newContext, returned)

\* a reflect call that returned: the working context it started with, the
\* names it was given and what it left as the working context
ReflectReturned == pc = "reflect" /\ pc' # "reflect" /\ err' = "none"

\* the items the loop body pushes after a review that returned nc
Pushed(nc) == SelectSeq(nc, LAMBDA c : c.title # "TOOLCONTEXT")

\* the working context as reflect left it, before the loop body pushed
AfterReflect == SubSeq(context', 1, Len(context') - Len(Pushed(newContext)))

\* some item reflect looks at has a path ending with an extracted name
HasMatch(items) ==
    \E k \in 1..Len(items), n \in 1..Len(Extract(res)) :
        EndsWith(items[k].path, Extract(res)[n])

\* some matching item reflect looks at is not a file, so nothing is resolved
HasSureMatch(items) ==
    \E k \in 1..Len(items), n \in 1..Len(Extract(res)) :
        EndsWith(items[k].path, Extract(res)[n]) /\ items[k].scheme # "file"

\* ctx2 is a non-empty list of agentic items followed by kept
ReplacedBy(ctx2, kept) ==
    /\ Len(ctx2) > Len(kept)
    /\ IsSuffix(kept, ctx2)
    /\ \A k \in 1..(Len(ctx2) - Len(kept)) : ctx2[k].source = "agentic"

\* C13 as stated, for matches that need no resolution: when a held item that
\* is not a file has a path ending with an extracted name, the working context
\* becomes the reflected items, all agentic, followed by exactly the held
\* user-added items, every other held item being dropped; when no name matches
\* an item reflect looks at, it is left unchanged.
ReflectKeepsUserAddedOnly ==
    [][ReflectReturned =>
        /\ HasSureMatch(context)
             => ReplacedBy(AfterReflect, SelectSeq(context, LAMBDA c : c.source = "user"))
        /\ ~HasMatch(CurrentContext(context)) => AfterReflect = context]_vars

\* C13 amended: a reflect call that returns leaves the working context either
\* unchanged or replaced by a non-empty list of agentic items followed by the
\* held items that are user-added or media; it is unchanged when the working
\* context is empty or nothing matches, and replaced when the working context
\* is non-empty and a matching item is not a file.
ReflectKeepsUserAddedAndMedia ==
    [][ReflectReturned =>
        LET kept == SelectSeq(context, LAMBDA c : c.source = "user" \/ c.type = "media")
            held == CurrentContext(context)
        IN /\ \/ AfterReflect = context /\ ~replaced'
              \/ ReplacedBy(AfterReflect, kept) /\ replaced'
           /\ (context = <<>> \/ ~HasMatch(held)) => AfterReflect = context /\ ~replaced'
           /\ (context # <<>> /\ HasSureMatch(held))
                => ReplacedBy(AfterReflect, kept) /\ replaced']_vars

\* a replacement kept a media item that no name matched and dropped the
\* search result that was neither matched nor user-added
MediaSurvivesReplacement ==
    /\ pc = "done"
    /\ err = "none"
    /\ replaced
    /\ initial = <<MediaItem>>
    /\ MediaItem \in Range(returned)
    /\ FreshFile \notin Range(returned)
    /\ stats.loop = 2

\* ------------------------------------------------------ diff engine claims
\* getDecorationInfo has returned
DiffDone == dpc \in {"done", "sorted"}

\* the lines of the two texts, as getDecorationInfo splits them
LinesOfOriginal == Split(originalText, LF)
LinesOfModified == Split(modifiedText, LF)

\* the text of an entry on the original side and on the modified side
OldTextOf(e) == IF e.type = "modified" THEN e.oldText ELSE e.text
NewTextOf(e) == IF e.type = "modified" THEN e.newText ELSE e.text

\* every entry of a DecorationInfo
AllEntries(info) ==
    info.unchangedLines \o info.removedLines \o info.addedLines \o info.modifiedLines

\* the entries that carry an original line number, a modified line number
OldSide(entries) == SelectSeq(entries, LAMBDA e : e.type # "added")
NewSide(entries) == SelectSeq(entries, LAMBDA e : e.type # "removed")

\* C14: the entries with an original line number hold every line of the
\* original text exactly once under its index, and the entries with a modified
\* line number every line of the modified text exactly once under its index.
DiffRoundTrip ==
    DiffDone =>
        LET olds == OldSide(AllEntries(decorationInfo))
            news == NewSide(AllEntries(decorationInfo))
        IN /\ Len(olds) = Len(LinesOfOriginal)
           /\ \A n \in 1..Len(LinesOfOriginal) :
                \E k \in 1..Len(olds) :
                    /\ olds[k].originalLineNumber = n - 1
                    /\ OldTextOf(olds[k]) = LinesOfOriginal[n]
           /\ Len(news) = Len(LinesOfModified)
           /\ \A n \in 1..Len(LinesOfModified) :
                \E k \in 1..Len(news) :
                    /\ news[k].modifiedLineNumber = n - 1
                    /\ NewTextOf(news[k]) = LinesOfModified[n]

\* a diff with a modified, a removed and an unchanged line
MixedDiffDone ==
    /\ dpc = "done"
    /\ decorationInfo.modifiedLines # <<>>
    /\ decorationInfo.removedLines # <<>>
    /\ decorationInfo.unchangedLines # <<>>

\* the texts of the changes of the given types, concatenated in order
RECURSIVE ChangesText(_, _)
ChangesText(changes, types) ==
    IF changes = <<>> THEN <<>>
    ELSE (IF Head(changes).type \in types THEN Head(changes).text ELSE <<>>)
            \o ChangesText(Tail(changes), types)

\* C15: in every modified line the unchanged and insert changes spell newText
\* and the unchanged and delete changes spell oldText.
ChangesSpellBothTexts ==
    DiffDone =>
        \A k \in 1..Len(decorationInfo.modifiedLines) :
            LET line == decorationInfo.modifiedLines[k]
            IN /\ ChangesText(line.changes, {"unchanged", "insert"}) = line.newText
               /\ ChangesText(line.changes, {"unchanged", "delete"}) = line.oldText

\* the texts of a sequence of entries on one side
TextsOf(entries, Side(_)) == [k \in 1..Len(entries) |-> Side(entries[k])]

\* C16: in the order sortDiff returns, the entries of the original side spell
\* the original text and the entries of the modified side the modified text.
SortedDiffSpellsBothTexts ==
    dpc = "sorted" =>
        /\ TextsOf(OldSide(sortedDiff), OldTextOf) = LinesOfOriginal
        /\ TextsOf(NewSide(sortedDiff), NewTextOf) = LinesOfModified

\* sortedDiff is in ascending order of line numbers and two neighbours on the
\* same line number are in the order of rank
SortedWithTies(rank) ==
    \A k \in 1..(Len(sortedDiff) - 1) :
        LET a == sortedDiff[k]
            b == sortedDiff[k + 1]
            aLine == IF a.type = "removed" THEN a.originalLineNumber
                     ELSE a.modifiedLineNumber
            bLine == IF b.type = "removed" THEN b.originalLineNumber
                     ELSE b.modifiedLineNumber
        IN \/ aLine < bLine
           \/ aLine = bLine /\ rank[a.type] <= rank[b.type]

\* C17 as stated: sortDiff orders by line number and breaks a tie in the
\* order added, modified, unchanged, removed.
SortDiffTiesRemovedLast ==
    dpc = "sorted" =>
        SortedWithTies([added |-> 0, modified |-> 1, unchanged |-> 2, removed |-> 3])

\* C17 amended: sortDiff orders by line number and breaks a tie in the order
\* removed, added, modified, unchanged.
SortDiffTiesRemovedFirst ==
    dpc = "sorted" =>
        SortedWithTies([removed |-> 0, added |-> 1, modified |-> 2, unchanged |-> 3])

\* a removed line and another line were sorted under the same line number
SortDiffBrokeTie ==
    /\ dpc = "sorted"
    /\ \E k \in 1..(Len(sortedDiff) - 1) :
        /\ sortedDiff[k].type = "removed"
        /\ sortedDiff[k + 1].type # "removed"
        /\ sortedDiff[k].originalLineNumber = sortedDiff[k + 1].modifiedLineNumber

\* C18: the diff of a text with itself has no added, removed or modified line
\* and one unchanged line for each line of the text, with its index on both
\* sides and its text.
SameTextAllUnchanged ==
    (DiffDone /\ originalText = modifiedText) =>
        /\ decorationInfo.addedLines = <<>>
        /\ decorationInfo.removedLines = <<>>
        /\ decorationInfo.modifiedLines = <<>>
        /\ decorationInfo.unchangedLines =
                [n \in 1..Len(LinesOfOriginal) |->
                    [type |-> "unchanged", originalLineNumber |-> n - 1,
                     modifiedLineNumber |-> n - 1, text |-> LinesOfOriginal[n]]]

\* a text of several lines was compared with itself
SameTextDone ==
    /\ dpc = "done"
    /\ originalText = modifiedText
    /\ Len(decorationInfo.unchangedLines) = MaxLines

\* C19: getDecorationInfo returns for every pair of texts; with an empty
\* original text and a modified text that is not empty every entry is an
\* added line, and with an empty modified text and an original text that is
\* not empty every entry is a removed line.
EmptyTextAllAddedOrRemoved ==
    DiffDone =>
        LET entries == AllEntries(decorationInfo)
        IN /\ (originalText = <<>> /\ modifiedText # <<>>)
                => \A k \in 1..Len(entries) : entries[k].type = "added"
           /\ (modifiedText = <<>> /\ originalText # <<>>)
                => \A k \in 1..Len(entries) : entries[k].type = "removed"

\* the types and texts of a sequence of changes
Brief(changes) == [k \in 1..Len(changes) |-> <<changes[k].type, changes[k].text>>]

\* C20: the changes of a modified line are a character diff that is simple
\* or, when a character diff is not simple, a diff of the chunks of the chunk
\* pattern; the line abcabc changed to xbcxbc has the word diff.
SimpleDiffFallback ==
    DiffDone =>
        \A k \in 1..Len(decorationInfo.modifiedLines) :
            LET line == decorationInfo.modifiedLines[k]
                oldChars == splitLineIntoChunks(line.oldText, "chars")
                newChars == splitLineIntoChunks(line.newText, "chars")
                oldChunks == splitLineIntoChunks(line.oldText, chunkRegex)
                newChunks == splitLineIntoChunks(line.newText, chunkRegex)
            IN /\ \E charDiffs \in Diffs(oldChars, newChars) :
                    LET charChanges ==
                            computeLineChanges(oldChars, newChars, line.originalLineNumber,
                                               line.modifiedLineNumber, charDiffs)
                    IN \/ isSimpleLineDiff(charChanges) /\ line.changes = charChanges
                       \/ /\ ~isSimpleLineDiff(charChanges)
                          /\ \E chunkDiffs \in Diffs(oldChunks, newChunks) :
                                line.changes =
                                    computeLineChanges(oldChunks, newChunks,
                                                       line.originalLineNumber,
                                                       line.modifiedLineNumber, chunkDiffs)
               /\ (/\ line.oldText = <<"a", "b", "c", "a", "b", "c">>
                   /\ line.newText = <<"x", "b", "c", "x", "b", "c">>
                   /\ chunkRegex = "words")
                    => Brief(line.changes) =
                            <<<<"delete", <<"a", "b", "c", "a", "b", "c">>>>,
                              <<"insert", <<"x", "b", "c", "x", "b", "c">>>>>>

\* the line abcabc was changed to xbcxbc with the default chunk pattern
WordDiffChosen ==
    /\ dpc = "done"
    /\ originalText = <<"a", "b", "c", "a", "b", "c">>
    /\ modifiedText = <<"x", "b", "c", "x", "b", "c">>
    /\ chunkRegex = "words"
    /\ Len(decorationInfo.modifiedLines) = 1

\* the merged changes of the last isSimpleLineDiff call
MergedChanges == groupLineChanges(simpleCall.changes)

\* a change is a modification, a text holds a white space character
IsModification(c) == c.type \in {"insert", "delete"}
HoldsWhitespace(text) == \E k \in 1..Len(text) : text[k] \in {" ", LS}

\* the k-th merged change is a replacement: a modification right behind a
\* modification
IsReplacement(g, k) == k >= 2 /\ IsModification(g[k]) /\ IsModification(g[k - 1])

\* a modification directly follows a replacement
ModificationAfterReplacement(g) ==
    \E k \in 2..(Len(g) - 1) : IsReplacement(g, k) /\ IsModification(g[k + 1])

\* C21 as stated: isSimpleLineDiff returns true when the sequence has at most
\* one element or every replacement of the merged sequence is the last change
\* or is followed by an unchanged span that holds white space; it returns
\* false when a modification directly follows a replacement.
SimpleIffReplacementsSeparated ==
    simpleCall.called =>
        LET g == MergedChanges
        IN /\ (\/ Len(simpleCall.changes) <= 1
               \/ \A k \in 2..Len(g) :
                    IsReplacement(g, k) =>
                        \/ k = Len(g)
                        \/ g[k + 1].type = "unchanged" /\ HoldsWhitespace(g[k + 1].text))
                => simpleCall.result
           /\ (Len(simpleCall.changes) > 1 /\ ModificationAfterReplacement(g))
                => ~simpleCall.result

\* C21 amended: isSimpleLineDiff returns true exactly when the sequence has at
\* most one element or, in the merged sequence, no modification directly
\* follows a replacement and every unchanged span that is neither the first
\* nor the last change holds white space.
SimpleIffModificationsSeparated ==
    simpleCall.called =>
        LET g == MergedChanges
        IN simpleCall.result <=>
            \/ Len(simpleCall.changes) <= 1
            \/ /\ ~ModificationAfterReplacement(g)
               /\ \A k \in 2..(Len(g) - 1) :
                    g[k].type = "unchanged" => HoldsWhitespace(g[k].text)

\* a sequence without a replacement was found not simple: two modifications
\* are separated by an unchanged span without white space
SeparatorWithoutWhitespace ==
    /\ simpleCall.called
    /\ ~simpleCall.result
    /\ \A k \in 1..Len(MergedChanges) : ~IsReplacement(MergedChanges, k)

\* the first and the last character of a text that is not empty
FirstChar(text) == text[1]
LastChar(text) == text[Len(text)]

\* C22: in the changes of a modified line a delete directly followed by an
\* insert, the two records of one replace hunk, do not begin with the same
\* white space character and do not end with the same white space character;
\* a line with one more space between two words has an insert of one space
\* between two unchanged records and no delete.
WhitespaceIsolated ==
    DiffDone =>
        \A n \in 1..Len(decorationInfo.modifiedLines) :
            LET line == decorationInfo.modifiedLines[n]
                changes == line.changes
            IN /\ \A k \in 1..(Len(changes) - 1) :
                    (changes[k].type = "delete" /\ changes[k + 1].type = "insert")
                        => /\ ~(/\ FirstChar(changes[k].text) = FirstChar(changes[k + 1].text)
                                /\ FirstChar(changes[k].text) \in {" ", LS})
                           /\ ~(/\ LastChar(changes[k].text) = LastChar(changes[k + 1].text)
                                /\ LastChar(changes[k].text) \in {" ", LS})
               /\ (/\ line.oldText = <<"a", "a", " ", "b">>
                   /\ line.newText = <<"a", "a", " ", " ", "b">>)
                    => /\ \A k \in 1..Len(changes) : changes[k].type # "delete"
                       /\ \E k \in 2..(Len(changes) - 1) :
                            /\ changes[k].type = "insert"
                            /\ changes[k].text = <<" ">>
                            /\ changes[k - 1].type = "unchanged"
                            /\ changes[k + 1].type = "unchanged"
                       /\ Cardinality({k \in 1..Len(changes) : changes[k].type = "insert"}) = 1

\* the word diff replaced two chunks that begin with the same white space
\* character, which became an unchanged record of its own
SharedWhitespaceSplitOff ==
    /\ dpc = "done"
    /\ originalText = <<LS, "a", "a">>
    /\ modifiedText = <<LS, " ", "a">>
    /\ Len(decorationInfo.modifiedLines) = 1
    /\ Brief(decorationInfo.modifiedLines[1].changes) =
            <<<<"unchanged", <<LS>>>>, <<"delete", <<"a", "a">>>>,
              <<"insert", <<" ", "a">>>>>>

\* C23: sortDiff, getDecorationStats, isOnlyAddingText,
\* isOnlyAddingTextForModifiedLines, isOnlyRemovingTextForModifiedLines and
\* getAddedLines leave the four sequences of the DecorationInfo they are
\* called with as they were, in content and in order.
DecorationInfoImmutable ==
    [][dpc = "done" => decorationInfo' = decorationInfo]_vars

\* getAddedLines was called with a DecorationInfo of several added lines
AddedLinesQueried ==
    /\ dpc = "queried"
    /\ queryResult.fn = "getAddedLines"
    /\ Len(queryResult.value) >= 2
    /\ queryResult.value = decorationInfo.addedLines

\* ------------------------------------------------- agent claims, continued
\* the run of tool t is in flight, has settled
InFlight(t) == toolState[t] = "running"
RunSettled(t) == toolState[t] \in {"ok", "failed"}

\* C24: while the non-MCP wrappers are awaited every non-MCP tool has been
\* started (or skipped on an abort) and no MCP tool has; an MCP tool is started
\* only when no non-MCP run is in flight and every MCP tool registered before
\* it has settled, so at most one MCP run is in flight.
ToolScheduling ==
    /\ pc = "nonMcp" =>
        \A t \in ToolIds :
            IF tools[t].isMcpTool THEN toolState[t] = "idle"
            ELSE toolState[t] \in {"running", "ok", "failed", "skipped"}
    /\ \A t \in ToolIds :
        (tools[t].isMcpTool /\ toolState[t] # "idle") =>
            /\ \A u \in ToolIds : ~tools[u].isMcpTool => ~InFlight(u) /\ toolState[u] # "idle"
            /\ \A u \in 1..(t - 1) : tools[u].isMcpTool => RunSettled(u)
    /\ Cardinality({t \in ToolIds : tools[t].isMcpTool /\ InFlight(t)}) <= 1

\* the runs of the two non-MCP tools are in flight together
NonMcpRunsTogether ==
    /\ pc = "nonMcp"
    /\ Cardinality({t \in ToolIds : ~tools[t].isMcpTool /\ InFlight(t)}) = 2

\* the working context holds every item the resolver was asked about
Survives(item, name, ctx) ==
    \E j \in 1..Len(ctx) :
        \/ ctx[j] = item
        \/ ctx[j] = [item EXCEPT !.source = "agentic"]
        \/ ctx[j] = [ResolvedFile(name) EXCEPT !.source = "agentic"]

\* C25: when a reflect call returns, every held item of the working context
\* whose path ends with an extracted name is still in the working context, as
\* the resolved file or, when resolving failed, as the held item.
ResolveFailureFallsBack ==
    [][ReflectReturned =>
        \A k \in 1..Len(context), n \in 1..Len(Extract(res)) :
            EndsWith(context[k].path, Extract(res)[n])
                => Survives(context[k], Extract(res)[n], AfterReflect)]_vars

\* C26: the array the caller passed as the initial context holds the elements
\* it had when getContext was called.
CallerArrayUntouched == callerCtx = initial

\* the tools of this iteration were started after the stream was consumed and
\* the turn was completed, and reflect is awaited with no run in flight
ToolsBetweenStreamAndReflect ==
    /\ (\E t \in ToolIds : toolState[t] \in {"running", "ok", "failed"})
        => /\ pc \in {"nonMcp", "mcp", "reflect"}
           /\ notifyCount = 1
           /\ accumulated = <<>>
    /\ pc = "reflect" => \A t \in ToolIds : ~InFlight(t)

\* C27: no tool runs before the stream is consumed and the turn completed,
\* reflect starts with every started run settled, nothing is appended to the
\* working context before reflect has returned, and the items of the iteration
\* are at the end of the working context once it has.
IterationOrdered ==
    /\ []ToolsBetweenStreamAndReflect
    /\ [][/\ (pc \in {"stream", "nonMcp", "mcp"} /\ pc' \in {"nonMcp", "mcp", "reflect"})
            => context' = context
          /\ ReflectReturned => IsSuffix(Pushed(newContext), context')]_vars

\* reflect replaced the working context and the items retrieved in the same
\* iteration are behind the replacement
RetrievedBehindReplacement ==
    /\ pc = "done"
    /\ err = "none"
    /\ replaced
    /\ Pushed(newContext) # <<>>
    /\ IsSuffix(Pushed(newContext), returned)

\* C28: no step taken while a tool run is in flight changes the working
\* context.
ContextStableWhileToolsRun ==
    [][(\E t \in ToolIds : InFlight(t)) => context' = context]_vars

\* a tool runs in the second iteration, the first one having grown the context
ToolRunsOnGrownContext ==
    /\ \E t \in ToolIds : InFlight(t)
    /\ stats.loop = 2
    /\ Len(context) > Len(initial)

\* the results of the tools whose isMcpTool is mcp, in registration order
RECURSIVE ResultsInOrder(_, _)
ResultsInOrder(t, mcp) ==
    IF t > Len(tools) THEN <<>>
    ELSE (IF tools[t].isMcpTool = mcp THEN toolResult[t] ELSE <<>>)
            \o ResultsInOrder(t + 1, mcp)

\* C29: the new context of an iteration is the results of the non-MCP tools
\* in registration order followed by the results of the MCP tools in
\* registration order.
NewContextInRegistrationOrder ==
    pc = "reflect" => newContext = ResultsInOrder(1, FALSE) \o ResultsInOrder(1, TRUE)

\* the four tools of the registry each retrieved an item
AllToolsYielded ==
    /\ pc = "reflect"
    /\ Len(newContext) = 4
    /\ newContext[1] \in ToolItems(SearchTool)
    /\ newContext[2] \in ToolItems(MemoryTool)
    /\ newContext[3] \in ToolItems(McpTool1)
    /\ newContext[4] \in ToolItems(McpTool2)

\* C30: at the end of an iteration the items the review returned that are not
\* titled TOOLCONTEXT are at the end of the working context, in order, and
\* nothing else was appended.
ToolContextNeverAppended ==
    [][IterationEnds =>
        LET appended == SelectSeq(newContext', LAMBDA c : c.title # "TOOLCONTEXT")
        IN /\ IsSuffix(appended, context')
           /\ ~replaced' => context' = context \o appended
           /\ replaced' =>
                \A k \in 1..(Len(context') - Len(appended)) :
                    context'[k].title # "TOOLCONTEXT"]_vars

\* a review returned an item titled TOOLCONTEXT and another item: only the
\* other one was appended
ToolContextLeftOut ==
    /\ pc = "done"
    /\ err = "none"
    /\ ~replaced
    /\ newContext = <<FreshFile, ToolContextItem>>
    /\ returned = initial \o <<FreshFile>>

\* C31: the fetched counter grows by the number of items the tools of an
\* iteration retrieved, once, when their results are combined, and in no other
\* step; the loop counter grows by one when an iteration starts and in no
\* other step; the telemetry event reports the two counters.
CountersExact ==
    [][/\ IF pc # "reflect" /\ pc' = "reflect"
          THEN stats'.context = stats.context + Len(newContext')
          ELSE stats'.context = stats.context
       /\ IF pc # "makePrompt" /\ pc' = "makePrompt"
          THEN stats'.loop = stats.loop + 1
          ELSE stats'.loop = stats.loop
       /\ (pc # "done" /\ pc' = "done")
            => /\ telemetry'.loop = stats'.loop
               /\ telemetry'.fetched = stats'.context]_vars

\* C32: while a stream is consumed the pieces published are the successive
\* new suffixes of the texts of the 'change' events, their concatenation is
\* the text of the last event, and that text is what processStream returns.
DeltasPublished ==
    /\ [](pc = "stream" => Flat(published) = lastText)
    /\ [][/\ (pc = "stream" /\ pc' = "stream" /\ events' = events + 1)
                => /\ IsPrefix(lastText, lastText')
                   /\ published' = Append(published,
                                          SubSeq(lastText', Len(lastText) + 1, Len(lastText')))
          /\ (pc = "stream" /\ pc' # "stream" /\ err' = "none") => res' = lastText]_vars

\* a stream has delivered the response in two events, each with a new part
TwoDeltasPublished ==
    /\ pc = "stream"
    /\ events = 2
    /\ lastText = <<"O", "a", "C">>
    /\ Len(published) = 2
    /\ published[1] # <<>>
    /\ published[2] # <<>>

\* C37: an iteration whose tools were all skipped because the signal was
\* aborted by the time the stream had been consumed runs no tool and leaves
\* the working context as it was: reflect replaces nothing and nothing is
\* appended.
AbortedStreamKeepsContext ==
    [][(/\ aborted
        /\ pc = "reflect"
        /\ pc' # "reflect"
        /\ \A t \in ToolIds : toolState[t] \in {"skipped", "idle"})
       => /\ context' = context
          /\ ~replaced'
          /\ pc' = "done" => returned' = context]_vars

\* C36: sortDiff returns every entry it was passed, once; of two entries of the
\* result the one with the smaller line number (the original line number of a
\* removed entry, the modified line number of any other) comes first, and of
\* two entries with the same line number a removed one comes before an added
\* one, an added one before a modified one, a modified one before an unchanged one.
SortDiffOrdersEveryPair ==
    dpc = "sorted" =>
        LET passed == decorationInfo.addedLines \o decorationInfo.modifiedLines
                        \o decorationInfo.unchangedLines \o decorationInfo.removedLines
            rank == [removed |-> 0, added |-> 1, modified |-> 2, unchanged |-> 3]
        IN /\ Len(sortedDiff) = Len(passed)
           /\ \A x \in Range(passed) :
                Cardinality({k \in 1..Len(sortedDiff) : sortedDiff[k] = x})
                    = Cardinality({k \in 1..Len(passed) : passed[k] = x})
           /\ \A j, k \in 1..Len(sortedDiff) :
                j < k =>
                    /\ SortLine(sortedDiff[j]) <= SortLine(sortedDiff[k])
                    /\ SortLine(sortedDiff[j]) = SortLine(sortedDiff[k])
                         => rank[sortedDiff[j].type] <= rank[sortedDiff[k].type]

\* a removed entry and an added entry were passed under the same line number
\* and the removed one was put first
RemovedSortedBeforeAdded ==
    /\ dpc = "sorted"
    /\ \E j, k \in 1..Len(sortedDiff) :
        /\ j < k
        /\ sortedDiff[j].type = "removed"
        /\ sortedDiff[k].type = "added"
        /\ sortedDiff[j].originalLineNumber = sortedDiff[k].modifiedLineNumber

\* C34: in the changes of every modified line no two neighbouring records have
\* the same type: records of one type that follow each other were merged.
NeighboursMerged ==
    DiffDone =>
        \A n \in 1..Len(decorationInfo.modifiedLines) :
            LET changes == decorationInfo.modifiedLines[n].changes
            IN \A k \in 1..(Len(changes) - 1) : changes[k].type # changes[k + 1].type

\* the character ranges of a sequence of changes are contiguous: from offsets
\* old and new on, every record starts where the one before it ended
RECURSIVE RangesContiguous(_, _, _, _)
RangesContiguous(changes, old, new, line) ==
    IF changes = <<>>
    THEN old = Len(line.oldText) /\ new = Len(line.newText)
    ELSE LET c == Head(changes)
             n == Len(c.text)
             oldEnd == IF c.type = "insert" THEN old ELSE old + n
             newEnd == IF c.type = "delete" THEN new ELSE new + n
         IN /\ c.originalRange.start = [line |-> line.originalLineNumber, character |-> old]
            /\ c.originalRange.end = [line |-> line.originalLineNumber, character |-> oldEnd]
            /\ c.modifiedRange.start = [line |-> line.modifiedLineNumber, character |-> new]
            /\ c.modifiedRange.end = [line |-> line.modifiedLineNumber, character |-> newEnd]
            /\ RangesContiguous(Tail(changes), oldEnd, newEnd, line)

\* C35: the ranges of the changes of a modified line start at character 0,
\* each record starts where the one before it ended, an unchanged record
\* advances both sides by the length of its text, a delete only the original
\* side and an insert only the modified side, and the last record ends at
\* the length of oldText and of newText.
RangesCoverBothTexts ==
    DiffDone =>
        \A n \in 1..Len(decorationInfo.modifiedLines) :
            LET line == decorationInfo.modifiedLines[n]
            IN RangesContiguous(line.changes, 0, 0, line)

\* the larger of two numbers
Max(a, b) == IF a > b THEN a ELSE b

\* the entries of the DecorationInfo a hunk accounts for
HunkClassified(hunk) ==
    LET d == hunk[2] - hunk[1]
        ins == hunk[4] - hunk[3]
        paired == Min(d, ins)
        removed == {k \in 1..Len(decorationInfo.removedLines) :
                        /\ decorationInfo.removedLines[k].originalLineNumber >= hunk[1]
                        /\ decorationInfo.removedLines[k].originalLineNumber < hunk[2]}
        added == {k \in 1..Len(decorationInfo.addedLines) :
                        /\ decorationInfo.addedLines[k].modifiedLineNumber >= hunk[3]
                        /\ decorationInfo.addedLines[k].modifiedLineNumber < hunk[4]}
    IN /\ \A k \in 0..(paired - 1) :
            LET old == LinesOfOriginal[hunk[1] + k + 1]
                new == LinesOfModified[hunk[3] + k + 1]
                lines == IF old # new THEN decorationInfo.modifiedLines
                         ELSE decorationInfo.unchangedLines
            IN \E n \in 1..Len(lines) :
                /\ lines[n].originalLineNumber = hunk[1] + k
                /\ lines[n].modifiedLineNumber = hunk[3] + k
                /\ IF old # new
                   THEN lines[n].oldText = old /\ lines[n].newText = new
                   ELSE lines[n].text = new
       /\ Cardinality(removed) = Max(0, d - ins)
       /\ \A k \in removed :
            decorationInfo.removedLines[k].originalLineNumber >= hunk[1] + paired
       /\ Cardinality(added) = Max(0, ins - d)
       /\ \A k \in added :
            decorationInfo.addedLines[k].modifiedLineNumber >= hunk[3] + paired
       /\ removed = {} \/ added = {}

\* C33: of a hunk with d deleted and i inserted lines the first min(d, i) lines
\* are paired by position, a pair of different texts being a modified entry
\* and a pair of equal texts an unchanged one; the hunk has max(0, d - i)
\* removed entries and max(0, i - d) added entries, so never both; and no
\* modified entry has oldText equal to newText.
HunksClassified ==
    DiffDone =>
        /\ \A h \in 1..Len(lineDiffs) : HunkClassified(lineDiffs[h])
        /\ \A n \in 1..Len(decorationInfo.modifiedLines) :
            decorationInfo.modifiedLines[n].oldText # decorationInfo.modifiedLines[n].newText

\* a hunk with two deleted lines and one inserted line gave a modified entry
\* for its first line and a removed entry for its second
HunkPairedThenRemoved ==
    /\ dpc = "done"
    /\ \E h \in 1..Len(lineDiffs) :
        /\ lineDiffs[h][2] - lineDiffs[h][1] = 2
        /\ lineDiffs[h][4] - lineDiffs[h][3] = 1
        /\ \E n \in 1..Len(decorationInfo.modifiedLines) :
            decorationInfo.modifiedLines[n].originalLineNumber = lineDiffs[h][1]
        /\ \E n \in 1..Len(decorationInfo.removedLines) :
            decorationInfo.removedLines[n].originalLineNumber = lineDiffs[h][1] + 1

\* C38: every OpenCtx subscription that is active delivers the provider
\* updates to the factory of the current instance, the one getTools and
\* getAllTools read.
UpdatesReachCurrentFactory ==
    \A k \in 1..Len(openCtxLive) : openCtxLive[k] = instance

\* C39: at most one OpenCtx subscription and at most one config subscription
\* are active, however often initialize and dispose were called; right after
\* dispose none is; and before the first initialize getTools returns [],
\* registerMcpTools returns [] and updateToolDisabledState returns false.
SubscriptionsNeverLeak ==
    /\ Len(openCtxLive) <= 1
    /\ configLive <= 1
    /\ lastCall.fn = "dispose" => (openCtxLive = <<>> /\ configLive = 0)
    /\ instance = 0 =>
        /\ lastCall.fn \in {"getTools", "registerMcpTools"} => lastCall.value = {}
        /\ lastCall.fn = "updateToolDisabledState" => lastCall.value = FALSE

\* initialize was called a second time while both subscriptions were active
InitializedTwice ==
    /\ instance = 2
    /\ lastCall.fn = "initialize"
    /\ openCtxSubscription = <<1>>
    /\ Len(openCtxLive) = 1
    /\ configLive = 1

====
